---- MODULE Spec2Model ----
(***************************************************************************)
(* Model of the SMS consent service in src/optin_webhook.py: the contact   *)
(* store (sqlite table contacts), the audit log (table audit_log), the     *)
(* two export files, the Twilio webhook /sms and the admin handlers.       *)
(*                                                                         *)
(* Text is modelled as tuples of one-character strings so that strip,      *)
(* upper, split and the regular expressions of clean_name are computed as  *)
(* the code computes them.  Every database statement                       *)
(* ("with db() as conn: conn.execute(...)") is one atomic step; a request  *)
(* is a sequence of such steps run by one of the server's threads.         *)
(***************************************************************************)
EXTENDS Integers, Sequences, FiniteSets, TLC

----------------------------------------------------------------------------
(* Bounds of the model                                                      *)

\* number of requests served in one behaviour: of webhook messages alone, of
\* requests of any kind one at a time, and of requests served concurrently
MaxSmsReqs == 3
MaxSeqReqs == 3
MaxConcReqs == 3
\* number of webhook messages served in a behaviour in which statements may fail
MaxFailReqs == 2
\* messages that build the store before the two compared runs of the webhook
MaxDetReqs == 2
\* rows of contacts.csv and lines of optouts.txt that a bulk run finds
MaxCsvRows == 3
MaxOptoutLines == 2
\* number of words in a message whose classification is checked
MaxWords == 3
\* largest value of the wall clock (utc_now has a resolution of one second)
MaxTime == 1

----------------------------------------------------------------------------
(* Text helpers                                                             *)

LowerCase == <<"a","b","c","d","e","f","g","h","i","j","k","l","m",
               "n","o","p","q","r","s","t","u","v","w","x","y","z">>
UpperCase == <<"A","B","C","D","E","F","G","H","I","J","K","L","M",
               "N","O","P","Q","R","S","T","U","V","W","X","Y","Z">>
Digits == {"0","1","2","3","4","5","6","7","8","9"}
WhiteSpace == {" ", "\t", "\n"}

Range(s) == {s[i] : i \in 1..Len(s)}
IsLetter(ch) == ch \in Range(LowerCase) \cup Range(UpperCase)

\* str.upper() on one character
UpperChar(ch) ==
    IF \E i \in 1..26 : LowerCase[i] = ch
    THEN UpperCase[CHOOSE i \in 1..26 : LowerCase[i] = ch]
    ELSE ch

\* str.upper()
Upper(s) == [i \in 1..Len(s) |-> UpperChar(s[i])]

RECURSIVE LStrip(_)
LStrip(s) == IF s # <<>> /\ Head(s) \in WhiteSpace THEN LStrip(Tail(s)) ELSE s

RECURSIVE RStrip(_)
RStrip(s) ==
    IF s # <<>> /\ s[Len(s)] \in WhiteSpace
    THEN RStrip(SubSeq(s, 1, Len(s) - 1))
    ELSE s

\* str.strip()
Strip(s) == RStrip(LStrip(s))

\* str.split(): the whitespace-separated words of s, as a set (tokens_upper
\* only keeps the set)
RECURSIVE SplitSet(_, _)
SplitSet(s, cur) ==
    IF s = <<>>
    THEN (IF cur = <<>> THEN {} ELSE {cur})
    ELSE IF Head(s) \in WhiteSpace
         THEN (IF cur = <<>> THEN {} ELSE {cur}) \cup SplitSet(Tail(s), <<>>)
         ELSE SplitSet(Tail(s), Append(cur, Head(s)))

\* a tokenizer that keeps the case of the letters
tokens_upper_case_kept(body) == SplitSet(Strip(body), <<>>)

\* set(body.strip().upper().split())
tokens_upper(body) == SplitSet(Upper(Strip(body)), <<>>)

\* re.sub(r"[^a-zA-Z\s'\-]", "", s)
NameChar(ch) == IsLetter(ch) \/ ch \in WhiteSpace \/ ch = "'" \/ ch = "-"
KeepNameChars(s) == SelectSeq(s, NameChar)

\* re.sub(r"\s+", " ", s)
RECURSIVE CollapseSpace(_)
CollapseSpace(s) ==
    IF s = <<>> THEN <<>>
    ELSE IF Head(s) \in WhiteSpace
         THEN <<" ">> \o CollapseSpace(LStrip(s))
         ELSE <<Head(s)>> \o CollapseSpace(Tail(s))

NameLimit == 40
Truncate(s, n) == IF Len(s) > n THEN SubSeq(s, 1, n) ELSE s

clean_name(s) == Truncate(Strip(CollapseSpace(KeepNameChars(Strip(s)))), NameLimit)

----------------------------------------------------------------------------
(* Phone normalizer                                                         *)

\* Python's None for an Optional[str] (falsy, as the empty text is)
None == <<>>

\* phonenumbers.parse: punctuation that a number may carry
PhonePunct == {" ", "(", ")", "-", "."}
IsDigit(ch) == ch \in Digits
DigitsOf(s) == SelectSeq(s, IsDigit)

\* phonenumbers.is_valid_number for the North American plan, the only plan of
\* the numbers drawn here: ten digits, area code and exchange starting 2..9
ValidNational(d) ==
    /\ Len(d) = 10
    /\ d[1] \notin {"0", "1"}
    /\ d[4] \notin {"0", "1"}

\* phonenumbers.parse(raw, region): the national number, or None when the
\* text is no phone number
ParseNational(raw, international) ==
    LET body == IF international THEN Tail(raw) ELSE raw
        d == DigitsOf(body)
    IN  IF \E i \in 1..Len(body) : body[i] \notin Digits \cup PhonePunct
        THEN None
        ELSE IF international
             THEN (IF d # <<>> /\ Head(d) = "1" THEN Tail(d) ELSE None)
             ELSE (IF Len(d) = 11 /\ Head(d) = "1" THEN Tail(d) ELSE d)

normalize_e164(raw0) ==
    LET raw == Strip(raw0)
    IN  IF raw = <<>> THEN None
        ELSE LET nat == ParseNational(raw, Head(raw) = "+")
             IN  IF nat = None THEN None
                 ELSE IF ~ValidNational(nat) THEN None
                 ELSE <<"+", "1">> \o nat

----------------------------------------------------------------------------
(* Keyword vocabularies                                                     *)

OPTIN_KEYWORDS ==
    { <<"J","O","I","N">>, <<"S","T","A","R","T">>,
      <<"S","U","B","S","C","R","I","B","E">> }
OPTOUT_KEYWORDS ==
    { <<"S","T","O","P">>, <<"S","T","O","P","A","L","L">>,
      <<"U","N","S","U","B","S","C","R","I","B","E">>,
      <<"C","A","N","C","E","L">>, <<"E","N","D">>, <<"Q","U","I","T">>,
      <<"S","T","O","P","A">>, <<"S","T","O","P","1">>, <<"S","T","O","P","2">> }
HELP_KEYWORDS == { <<"H","E","L","P">>, <<"I","N","F","O">> }

ASK_NAME_ON_JOIN == TRUE

----------------------------------------------------------------------------
(* Reply texts of the webhook (the source's typographic apostrophe is       *)
(* written ')                                                               *)

REPLY_INVALID == <<"Invalid number. Reply JOIN to subscribe. Reply STOP to opt out.">>
REPLY_OPTOUT == <<"You're opted out. Reply START to resubscribe.">>
REPLY_HELP == <<"Reply JOIN to subscribe. Reply STOP to opt out.">>
REPLY_SUBSCRIBED == <<"You're subscribed! Reply STOP to opt out.">>
REPLY_ASK_NAME ==
    <<"You're subscribed! Reply with your first name (example: Joey). Reply STOP to opt out.">>
REPLY_DEFAULT == <<"Reply JOIN to subscribe. Reply STOP to opt out.">>
\* f"Thanks, {name}! You're all set. Reply STOP to opt out."
ReplyThanks(name) == <<"Thanks, ", name, "! You're all set. Reply STOP to opt out.">>
NoReply == <<>>

----------------------------------------------------------------------------
(* State                                                                    *)

Threads == {1, 2}

VARIABLES
    contacts,     \* table contacts: a set of rows
    last_id,      \* sqlite_sequence of contacts (AUTOINCREMENT)
    audit,        \* table audit_log, in insertion order
    csv_file,     \* EXPORT_CSV: the rows after the header, <<phone, name>>
    optout_file,  \* OPTOUT_FILE: one phone per line
    now,          \* the wall clock, in seconds
    pc,           \* per thread: the stack of code positions
    loc,          \* per thread: the request, its locals and its response
    nreq,         \* requests started so far
    g_ops,        \* history: the logical mutations applied to the store
    g_ver,        \* history: number of committed writes to contacts
    g_csv,        \* history: the refresh that wrote csv_file
    g_opt         \* history: the refresh that wrote optout_file
\* (in loc, g_conf: the request met a uniqueness conflict; g_nf: a statement
\* of the request addressed a phone or an id that no contact had; g_prot: the
\* phones whose opt-out the webhook had confirmed when a bulk run started)

vars == <<contacts, last_id, audit, csv_file, optout_file, now, pc, loc, nreq,
          g_ops, g_ver, g_csv, g_opt>>

\* a row of contacts; id 0 stands for "no row" (None, falsy)
NoContact ==
    [id |-> 0, phone |-> <<>>, name |-> <<>>, opted_out |-> 0,
     created_at |-> 0, updated_at |-> 0]
Exists(c) == c.id # 0

\* current_actor(): the admin identity stored at login (ADMIN_USER)
ADMIN_USER == "dad"
SYSTEM == "system"

\* a request field that the caller did not send (payload.get / form.get
\* return None)
NoValue == "absent"

\* the locals of a thread that serves no request
InitLoc ==
    [op |-> "none", rid |-> 0,
     a_from |-> <<>>, a_old |-> <<>>, a_body |-> <<>>, a_name |-> <<>>,
     a_id |-> 0, a_opt |-> NoValue,
     phone |-> <<>>, name |-> <<>>, c |-> NoContact,
     h_before |-> NoContact, h_after |-> NoContact,
     f_phone |-> <<>>, f_name |-> <<>>, f_val |-> 0, f_actor |-> "", f_log |-> TRUE,
     f_before |-> NoContact, f_after |-> NoContact, f_ret |-> TRUE, f_err |-> <<>>,
     f_ts |-> 0, f_id |-> 0,
     u_old |-> <<>>, u_new |-> <<>>, u_name |-> <<>>,
     al_actor |-> "", al_action |-> "", al_id |-> 0,
     al_before |-> NoContact, al_after |-> NoContact, al_ts |-> 0,
     x_in |-> <<>>, x_out |-> <<>>,
     cat |-> "", reply |-> NoReply, status |-> 0,
     g_op |-> 0, g_dirty |-> FALSE, g_mut |-> FALSE, g_rver |-> 0, g_xver |-> 0,
     g_conf |-> FALSE, g_nf |-> FALSE,
     b_optouts |-> {}, b_rows |-> <<>>, b_i |-> 0, b_log |-> <<>>, g_prot |-> {}]

----------------------------------------------------------------------------
(* Reads of the store                                                       *)

get_contact_by_phone(phone) ==
    IF \E r \in contacts : r.phone = phone
    THEN CHOOSE r \in contacts : r.phone = phone
    ELSE NoContact

get_contact_by_id(contact_id) ==
    IF \E r \in contacts : r.id = contact_id
    THEN CHOOSE r \in contacts : r.id = contact_id
    ELSE NoContact

\* a schema in which the phone column is not declared UNIQUE
UniqueViolation_unenforced(phone, id) == FALSE

\* "phone TEXT NOT NULL UNIQUE": a row other than the row id holds phone, so
\* that writing phone into row id (id 0: a new row) raises IntegrityError
UniqueViolation(phone, id) == \E o \in contacts : o.id # id /\ o.phone = phone

\* the values utc_now() may return: the second last seen or, when the clock
\* runs on during the request, the next
ClockReads(running) ==
    {v \in {now} \cup (IF running THEN {now + 1} ELSE {}) : v <= MaxTime}

\* "ORDER BY updated_at DESC": every order of the rows S that is descending in
\* updated_at (rows of equal updated_at come in an order sqlite does not fix)
OrderedByUpdated(S) ==
    {s \in [1..Cardinality(S) -> S] :
        /\ \A i, j \in 1..Cardinality(S) : i # j => s[i] # s[j]
        /\ \A i, j \in 1..Cardinality(S) : i < j => s[i].updated_at >= s[j].updated_at}

----------------------------------------------------------------------------
(* Control: a thread's pc is the stack of its code positions                *)

At(t, l) == pc[t] # <<>> /\ Head(pc[t]) = l
Idle(t) == pc[t] \in {<<"idle">>, <<"done">>}
Quiescent == \A t \in Threads : Idle(t)

\* a function returns to its caller; a handler whose remaining work is to
\* return its response ("fin") is then done
Ret(stack) == IF Tail(stack) = <<"fin">> THEN <<"done">> ELSE Tail(stack)

\* what stays in a thread once its request has returned: the request, what it
\* read on arrival, the response
Finished(l) ==
    [InitLoc EXCEPT !.op = l.op, !.rid = l.rid, !.a_from = l.a_from,
                    !.a_old = l.a_old, !.a_body = l.a_body, !.a_name = l.a_name,
                    !.a_id = l.a_id, !.a_opt = l.a_opt, !.phone = l.phone,
                    !.name = l.name, !.c = l.c, !.cat = l.cat, !.reply = l.reply,
                    !.status = l.status, !.g_dirty = l.g_dirty, !.g_mut = l.g_mut,
                    !.g_conf = l.g_conf, !.g_nf = l.g_nf,
                    !.b_optouts = l.b_optouts, !.b_log = l.b_log,
                    !.g_prot = l.g_prot]

MSG_INVALID_PHONE == <<"Invalid phone number.">>
MSG_ADD_INVALID == <<"That phone number looks invalid. Try again (include area code).">>
MSG_ALREADY_ADDED == <<"Number already added.">>
MSG_OK == <<"ok">>
MSG_REDIRECT == <<"redirect">>

\* admin_add that answers without refreshing the export
add_ret_no_export(l) ==
    IF l.f_ret
    THEN [st |-> <<"done">>, l |-> [l EXCEPT !.reply = MSG_OK]]
    ELSE [st |-> <<"done">>, l |-> [l EXCEPT !.reply = MSG_ALREADY_ADDED]]

\* admin_add after add_contact returned: if not added: error; else export
add_ret(l) ==
    IF l.f_ret
    THEN [st |-> <<"ex_in", "fin">>, l |-> [l EXCEPT !.reply = MSG_OK]]
    ELSE [st |-> <<"done">>, l |-> [l EXCEPT !.reply = MSG_ALREADY_ADDED]]

\* admin_api_delete_contact after delete_contact_by_id returned: export, or 404
apidel_ret(l) ==
    IF l.f_ret
    THEN [st |-> <<"ex_in", "fin">>, l |-> [l EXCEPT !.status = 200, !.reply = MSG_OK]]
    ELSE [st |-> <<"done">>,
          l |-> [l EXCEPT !.status = 404, !.reply = <<"Contact not found.">>]]

\* admin_contacts_edit after update_contact returned: if err: return the
\* error page; else set_opted_out(new_phone, opted_out_val, log=False)
ed_ret(l) ==
    IF l.f_err # <<>>
    THEN [st |-> <<"done">>, l |-> [l EXCEPT !.reply = l.f_err]]
    ELSE [st |-> <<"so_before", "ed_after", "ex_in", "fin">>,
          l |-> [l EXCEPT !.f_phone = l.u_new, !.f_log = FALSE]]

\* the statements a handler runs on its own locals when a store function
\* returns to it, up to its next access to the store or the files
Continue(st, l) ==
    IF Head(st) = "add_ret" THEN add_ret(l)
    ELSE IF Head(st) = "apidel_ret" THEN apidel_ret(l)
    ELSE IF Head(st) = "ed_ret" THEN ed_ret(l)
    ELSE [st |-> st, l |-> l]

\* thread t moves to the stack st with locals l
Move(t, st, l) ==
    LET n == Continue(st, l)
    IN  /\ pc' = [pc EXCEPT ![t] = n.st]
        /\ loc' = [loc EXCEPT ![t] = IF n.st = <<"done">> THEN Finished(n.l) ELSE n.l]

\* history of a committed write by a thread with locals l that turned row pre
\* into row post (NoContact: the row did not exist before, or is gone after)
WroteLoc(l) ==
    [l EXCEPT !.g_op = IF l.g_op = 0 THEN Len(g_ops) + 1 ELSE l.g_op,
              !.g_dirty = TRUE, !.g_mut = TRUE]
WroteOps(l, pre, post) ==
    IF l.g_op = 0
    THEN Append(g_ops, [cid |-> IF Exists(pre) THEN pre.id ELSE post.id,
                        before |-> pre, after |-> post])
    ELSE [g_ops EXCEPT ![l.g_op].after = post]

----------------------------------------------------------------------------
(* audit_log(actor, action, contact_id, before, after)                      *)

\* now = utc_now()
al_now(t, running) ==
    /\ At(t, "al_now")
    /\ \E v \in ClockReads(running) :
        /\ now' = v
        /\ Move(t, <<"al_insert">> \o Tail(pc[t]), [loc[t] EXCEPT !.al_ts = v])
    /\ UNCHANGED <<contacts, last_id, audit, csv_file, optout_file, nreq,
                   g_ops, g_ver, g_csv, g_opt>>

\* an audit table that keeps one row per contact: the INSERT replaces the
\* contact's earlier row
AuditInserted_one_per_contact(e) ==
    SelectSeq(audit, LAMBDA x : x.contact_id # e.contact_id) \o <<e>>

\* the table audit_log after INSERT INTO audit_log of the row e (the table's
\* id is AUTOINCREMENT: the row comes last)
AuditInserted(e) == Append(audit, e)

\* INSERT INTO audit_log
al_insert(t) ==
    /\ At(t, "al_insert")
    /\ audit' = AuditInserted(
                  [actor |-> loc[t].al_actor, action |-> loc[t].al_action,
                   contact_id |-> loc[t].al_id,
                   before |-> loc[t].al_before, after |-> loc[t].al_after,
                   created_at |-> loc[t].al_ts, g_op |-> loc[t].g_op])
    /\ Move(t, Ret(pc[t]), [loc[t] EXCEPT !.g_op = 0])
    /\ UNCHANGED <<contacts, last_id, csv_file, optout_file, now, nreq,
                   g_ops, g_ver, g_csv, g_opt>>

\* a call of audit_log that passes the row read after the write as before too
AuditArgs_before_reread(l, actor, action, id, before, after) ==
    [l EXCEPT !.al_actor = actor, !.al_action = action, !.al_id = id,
              !.al_before = IF Exists(after) THEN after ELSE before,
              !.al_after = after]

\* a call of audit_log that attributes every entry to "system"
AuditArgs_as_system(l, actor, action, id, before, after) ==
    [l EXCEPT !.al_actor = SYSTEM, !.al_action = action, !.al_id = id,
              !.al_before = before, !.al_after = after]

\* the locals l with the arguments of a call of audit_log
AuditArgs(l, actor, action, id, before, after) ==
    [l EXCEPT !.al_actor = actor, !.al_action = action, !.al_id = id,
              !.al_before = before, !.al_after = after]

----------------------------------------------------------------------------
(* add_contact(phone, name, actor, log)                                     *)

\* now = utc_now()
ac_now(t, running) ==
    /\ At(t, "ac_now")
    /\ \E v \in ClockReads(running) :
        /\ now' = v
        /\ Move(t, <<"ac_insert">> \o Tail(pc[t]), [loc[t] EXCEPT !.f_ts = v])
    /\ UNCHANGED <<contacts, last_id, audit, csv_file, optout_file, nreq,
                   g_ops, g_ver, g_csv, g_opt>>

\* the row INSERT INTO contacts adds
NewRow(id, phone, name, ts) ==
    [id |-> id, phone |-> phone, name |-> name, opted_out |-> 0,
     created_at |-> ts, updated_at |-> ts]

\* an id column declared INTEGER PRIMARY KEY without AUTOINCREMENT: the new
\* row gets the largest id in the table plus one
NextId_max_rowid ==
    IF contacts = {} THEN 1
    ELSE (CHOOSE c \in contacts : \A o \in contacts : o.id <= c.id).id + 1

\* "id INTEGER PRIMARY KEY AUTOINCREMENT": the new row gets the largest id the
\* table ever held (sqlite_sequence) plus one
NextId == last_id + 1

\* INSERT INTO contacts; sqlite3.IntegrityError (phone is UNIQUE) returns False
ac_insert(t) ==
    /\ At(t, "ac_insert")
    /\ LET l == loc[t]
           row == NewRow(NextId, l.f_phone, l.f_name, l.f_ts)
       IN  IF UniqueViolation(l.f_phone, 0)
           THEN /\ Move(t, Ret(pc[t]), [l EXCEPT !.f_ret = FALSE, !.g_conf = TRUE])
                /\ UNCHANGED <<contacts, last_id, g_ops, g_ver>>
           ELSE /\ contacts' = contacts \cup {row}
                /\ last_id' = last_id + 1
                /\ g_ops' = WroteOps(l, NoContact, row)
                /\ g_ver' = g_ver + 1
                /\ Move(t, IF l.f_log THEN <<"ac_get">> \o Tail(pc[t]) ELSE Ret(pc[t]),
                        [WroteLoc(l) EXCEPT !.f_ret = TRUE])
    /\ UNCHANGED <<audit, csv_file, optout_file, now, nreq, g_csv, g_opt>>

\* c = get_contact_by_phone(phone); audit_log(actor, "create", c.id, None, c)
ac_get(t) ==
    /\ At(t, "ac_get")
    /\ LET l == loc[t]
           c == get_contact_by_phone(l.f_phone)
       IN  Move(t, <<"al_now">> \o Tail(pc[t]),
                AuditArgs(l, l.f_actor, "create", c.id, NoContact, c))
    /\ UNCHANGED <<contacts, last_id, audit, csv_file, optout_file, now, nreq,
                   g_ops, g_ver, g_csv, g_opt>>

----------------------------------------------------------------------------
(* set_opted_out(phone, opted_out, actor, log)                              *)

\* before = get_contact_by_phone(phone)
so_before(t) ==
    /\ At(t, "so_before")
    /\ Move(t, <<"so_now">> \o Tail(pc[t]),
            [loc[t] EXCEPT !.f_before = get_contact_by_phone(loc[t].f_phone)])
    /\ UNCHANGED <<contacts, last_id, audit, csv_file, optout_file, now, nreq,
                   g_ops, g_ver, g_csv, g_opt>>

\* a consent write that leaves the opted_out column as it was
ConsentRow_unwritten(r, opted_out, ts) == [r EXCEPT !.updated_at = ts]

\* a consent write that stores 1 whatever the argument
ConsentRow_always_out(r, opted_out, ts) == [r EXCEPT !.opted_out = 1, !.updated_at = ts]

\* a consent write done as INSERT OR REPLACE: the row is deleted and inserted
\* again, under a new id
ConsentRow_replaced(r, opted_out, ts) ==
    [r EXCEPT !.id = last_id + 1, !.opted_out = IF opted_out # 0 THEN 1 ELSE 0,
              !.updated_at = ts]

\* an update that also empties the name
ConsentRow_name_cleared(r, opted_out, ts) ==
    [r EXCEPT !.name = <<>>, !.opted_out = IF opted_out # 0 THEN 1 ELSE 0,
              !.updated_at = ts]

\* the row r after SET opted_out = (1 if opted_out else 0), updated_at = ts
ConsentRow(r, opted_out, ts) ==
    [r EXCEPT !.opted_out = IF opted_out # 0 THEN 1 ELSE 0, !.updated_at = ts]

\* the argument utc_now() of the UPDATE, evaluated before conn.execute runs it
so_now(t, running) ==
    /\ At(t, "so_now")
    /\ \E v \in ClockReads(running) :
        /\ now' = v
        /\ Move(t, <<"so_update">> \o Tail(pc[t]), [loc[t] EXCEPT !.f_ts = v])
    /\ UNCHANGED <<contacts, last_id, audit, csv_file, optout_file, nreq,
                   g_ops, g_ver, g_csv, g_opt>>

\* UPDATE contacts SET opted_out = ?, updated_at = ? WHERE phone = ?
so_update(t) ==
    /\ At(t, "so_update")
    /\ LET l == loc[t]
            r == get_contact_by_phone(l.f_phone)
            r2 == ConsentRow(r, l.f_val, l.f_ts)
        IN  /\ UNCHANGED now
            /\ IF Exists(r)
               THEN /\ contacts' = (contacts \ {r}) \cup {r2}
                    /\ g_ops' = WroteOps(l, r, r2)
                    /\ g_ver' = g_ver + 1
                    /\ Move(t, <<"so_after">> \o Tail(pc[t]), WroteLoc(l))
               ELSE /\ Move(t, <<"so_after">> \o Tail(pc[t]), [l EXCEPT !.g_nf = TRUE])
                    /\ UNCHANGED <<contacts, g_ops, g_ver>>
    /\ UNCHANGED <<last_id, audit, csv_file, optout_file, nreq, g_csv, g_opt>>

\* after = get_contact_by_phone(phone); if log and after: audit_log(...)
so_after(t) ==
    /\ At(t, "so_after")
    /\ LET l == loc[t]
           after == get_contact_by_phone(l.f_phone)
           l2 == [l EXCEPT !.f_after = after]
       IN  IF l.f_log /\ Exists(after)
           THEN Move(t, <<"al_now">> \o Tail(pc[t]),
                     AuditArgs(l2, l.f_actor,
                               IF l.f_val = 1 THEN "opt_out" ELSE "opt_in",
                               after.id, l.f_before, after))
           ELSE Move(t, Ret(pc[t]), l2)
    /\ UNCHANGED <<contacts, last_id, audit, csv_file, optout_file, now, nreq,
                   g_ops, g_ver, g_csv, g_opt>>

----------------------------------------------------------------------------
(* An exception nobody in the handler catches, or that the handler answers  *)
(* with an error status: the request ends there                             *)

Raised(l, status, msg) == [l EXCEPT !.status = status, !.reply = msg]

ERR_NOT_FOUND == <<"Contact not found.">>
ERR_EXISTS == <<"That phone number already exists.">>
ERR_UPDATE_FAILED == <<"Update failed.">>
ERR_SERVER == <<"Internal Server Error">>

----------------------------------------------------------------------------
(* update_contact(old_phone, new_phone, new_name)                           *)

\* old = get_contact_by_phone(old_phone); if not old: return "Contact not found."
uc_old(t) ==
    /\ At(t, "uc_old")
    /\ LET l == loc[t]
           old == get_contact_by_phone(l.u_old)
       IN  IF ~Exists(old)
           THEN Move(t, Ret(pc[t]), [l EXCEPT !.f_err = ERR_NOT_FOUND, !.g_nf = TRUE])
           ELSE Move(t, <<IF l.u_new # l.u_old THEN "uc_dup" ELSE "uc_now">>
                         \o Tail(pc[t]), l)
    /\ UNCHANGED <<contacts, last_id, audit, csv_file, optout_file, now, nreq,
                   g_ops, g_ver, g_csv, g_opt>>

\* if new_phone != old_phone and get_contact_by_phone(new_phone): return error
uc_dup(t) ==
    /\ At(t, "uc_dup")
    /\ LET l == loc[t]
       IN  IF Exists(get_contact_by_phone(l.u_new))
           THEN Move(t, Ret(pc[t]), [l EXCEPT !.f_err = ERR_EXISTS, !.g_conf = TRUE])
           ELSE Move(t, <<"uc_now">> \o Tail(pc[t]), l)
    /\ UNCHANGED <<contacts, last_id, audit, csv_file, optout_file, now, nreq,
                   g_ops, g_ver, g_csv, g_opt>>

\* an update that writes the phone and leaves the name as it was
RenamedRow_name_unwritten(r, new_phone, new_name, ts) ==
    [r EXCEPT !.phone = new_phone, !.updated_at = ts]

\* the row r after SET phone = new_phone, name = new_name, updated_at = ts
\* (new_phone is r's phone in the branch that does not set the phone)
RenamedRow(r, new_phone, new_name, ts) ==
    [r EXCEPT !.phone = new_phone, !.name = new_name, !.updated_at = ts]

\* the argument utc_now() of the UPDATE, evaluated before conn.execute runs it
uc_now(t, running) ==
    /\ At(t, "uc_now")
    /\ \E v \in ClockReads(running) :
        /\ now' = v
        /\ Move(t, <<"uc_update">> \o Tail(pc[t]), [loc[t] EXCEPT !.f_ts = v])
    /\ UNCHANGED <<contacts, last_id, audit, csv_file, optout_file, nreq,
                   g_ops, g_ver, g_csv, g_opt>>

\* UPDATE contacts SET [phone = ?,] name = ?, updated_at = ? WHERE phone = ?
\* (phone is UNIQUE: the statement raises sqlite3.IntegrityError when another
\* row holds new_phone by now)
uc_update(t) ==
    /\ At(t, "uc_update")
    /\ LET l == loc[t]
            r == get_contact_by_phone(l.u_old)
            r2 == RenamedRow(r, l.u_new, l.u_name, l.f_ts)
        IN  /\ UNCHANGED now
            /\ IF ~Exists(r)
               THEN /\ Move(t, Ret(pc[t]), [l EXCEPT !.f_err = <<>>])
                    /\ UNCHANGED <<contacts, g_ops, g_ver>>
               ELSE IF UniqueViolation(l.u_new, r.id)
               THEN /\ Move(t, <<"done">>,
                            Raised([l EXCEPT !.g_conf = TRUE], 500, ERR_SERVER))
                    /\ UNCHANGED <<contacts, g_ops, g_ver>>
               ELSE /\ contacts' = (contacts \ {r}) \cup {r2}
                    /\ g_ops' = WroteOps(l, r, r2)
                    /\ g_ver' = g_ver + 1
                    /\ Move(t, Ret(pc[t]), [WroteLoc(l) EXCEPT !.f_err = <<>>])
    /\ UNCHANGED <<last_id, audit, csv_file, optout_file, nreq, g_csv, g_opt>>

----------------------------------------------------------------------------
(* update_contact_by_id(contact_id, new_phone, new_name, opted_out, actor)  *)

\* before = get_contact_by_id(contact_id); if not before: raise ValueError
ui_before(t) ==
    /\ At(t, "ui_before")
    /\ LET l == loc[t]
           before == get_contact_by_id(l.f_id)
       IN  IF ~Exists(before)
           THEN Move(t, <<"done">>, Raised([l EXCEPT !.g_nf = TRUE], 400, ERR_NOT_FOUND))
           ELSE Move(t, <<IF l.u_new # before.phone THEN "ui_existing" ELSE "ui_now">>
                         \o Tail(pc[t]),
                     [l EXCEPT !.f_before = before])
    /\ UNCHANGED <<contacts, last_id, audit, csv_file, optout_file, now, nreq,
                   g_ops, g_ver, g_csv, g_opt>>

\* existing = get_contact_by_phone(new_phone); a different contact: ValueError
ui_existing(t) ==
    /\ At(t, "ui_existing")
    /\ LET l == loc[t]
           existing == get_contact_by_phone(l.u_new)
       IN  IF Exists(existing) /\ existing.id # l.f_id
           THEN Move(t, <<"done">>, Raised([l EXCEPT !.g_conf = TRUE], 400, ERR_EXISTS))
           ELSE Move(t, <<"ui_now">> \o Tail(pc[t]), l)
    /\ UNCHANGED <<contacts, last_id, audit, csv_file, optout_file, now, nreq,
                   g_ops, g_ver, g_csv, g_opt>>

\* the argument utc_now() of the UPDATE, evaluated before conn.execute runs it
ui_now(t, running) ==
    /\ At(t, "ui_now")
    /\ \E v \in ClockReads(running) :
        /\ now' = v
        /\ Move(t, <<"ui_update">> \o Tail(pc[t]), [loc[t] EXCEPT !.f_ts = v])
    /\ UNCHANGED <<contacts, last_id, audit, csv_file, optout_file, nreq,
                   g_ops, g_ver, g_csv, g_opt>>

\* UPDATE contacts SET phone, name, opted_out, updated_at WHERE id = ?
\* (sqlite3.IntegrityError is answered "Update failed.", status 500)
ui_update(t) ==
    /\ At(t, "ui_update")
    /\ LET l == loc[t]
            r == get_contact_by_id(l.f_id)
            r2 == [r EXCEPT !.phone = l.u_new, !.name = l.u_name,
                            !.opted_out = l.f_val, !.updated_at = l.f_ts]
        IN  /\ UNCHANGED now
            /\ IF ~Exists(r)
               THEN /\ Move(t, <<"ui_after">> \o Tail(pc[t]), l)
                    /\ UNCHANGED <<contacts, g_ops, g_ver>>
               ELSE IF UniqueViolation(l.u_new, r.id)
               THEN /\ Move(t, <<"done">>,
                            Raised([l EXCEPT !.g_conf = TRUE], 500, ERR_UPDATE_FAILED))
                    /\ UNCHANGED <<contacts, g_ops, g_ver>>
               ELSE /\ contacts' = (contacts \ {r}) \cup {r2}
                    /\ g_ops' = WroteOps(l, r, r2)
                    /\ g_ver' = g_ver + 1
                    /\ Move(t, <<"ui_after">> \o Tail(pc[t]), WroteLoc(l))
    /\ UNCHANGED <<last_id, audit, csv_file, optout_file, nreq, g_csv, g_opt>>

\* after = get_contact_by_id(contact_id); audit_log(actor, "update", ...)
ui_after(t) ==
    /\ At(t, "ui_after")
    /\ LET l == loc[t]
           after == get_contact_by_id(l.f_id)
       IN  Move(t, <<"al_now">> \o Tail(pc[t]),
                AuditArgs([l EXCEPT !.f_after = after], l.f_actor, "update",
                          l.f_id, l.f_before, after))
    /\ UNCHANGED <<contacts, last_id, audit, csv_file, optout_file, now, nreq,
                   g_ops, g_ver, g_csv, g_opt>>

----------------------------------------------------------------------------
(* delete_contact(phone, actor, log) and delete_contact_by_id(id, actor)    *)

\* before = get_contact_by_phone(phone)
dc_before(t) ==
    /\ At(t, "dc_before")
    /\ Move(t, <<"dc_delete">> \o Tail(pc[t]),
            [loc[t] EXCEPT !.f_before = get_contact_by_phone(loc[t].f_phone)])
    /\ UNCHANGED <<contacts, last_id, audit, csv_file, optout_file, now, nreq,
                   g_ops, g_ver, g_csv, g_opt>>

\* DELETE FROM contacts WHERE phone = ?; if log and before: audit_log(...)
dc_delete(t) ==
    /\ At(t, "dc_delete")
    /\ LET l == loc[t]
           r == get_contact_by_phone(l.f_phone)
           l2 == IF Exists(r) THEN WroteLoc(l) ELSE [l EXCEPT !.g_nf = TRUE]
       IN  /\ IF Exists(r)
              THEN /\ contacts' = contacts \ {r}
                   /\ g_ops' = WroteOps(l, r, NoContact)
                   /\ g_ver' = g_ver + 1
              ELSE UNCHANGED <<contacts, g_ops, g_ver>>
           /\ IF l.f_log /\ Exists(l.f_before)
              THEN Move(t, <<"al_now">> \o Tail(pc[t]),
                        AuditArgs(l2, l.f_actor, "delete", l.f_before.id,
                                  l.f_before, NoContact))
              ELSE Move(t, Ret(pc[t]), l2)
    /\ UNCHANGED <<last_id, audit, csv_file, optout_file, now, nreq, g_csv, g_opt>>

\* before = get_contact_by_id(contact_id); if not before: return False
di_before(t) ==
    /\ At(t, "di_before")
    /\ LET l == loc[t]
           before == get_contact_by_id(l.f_id)
       IN  IF ~Exists(before)
           THEN Move(t, Ret(pc[t]), [l EXCEPT !.f_ret = FALSE, !.g_nf = TRUE])
           ELSE Move(t, <<"di_delete">> \o Tail(pc[t]), [l EXCEPT !.f_before = before])
    /\ UNCHANGED <<contacts, last_id, audit, csv_file, optout_file, now, nreq,
                   g_ops, g_ver, g_csv, g_opt>>

\* DELETE FROM contacts WHERE id = ?; audit_log(actor, "delete", ...); return True
di_delete(t) ==
    /\ At(t, "di_delete")
    /\ LET l == loc[t]
           r == get_contact_by_id(l.f_id)
           l2 == [(IF Exists(r) THEN WroteLoc(l) ELSE l) EXCEPT !.f_ret = TRUE]
       IN  /\ IF Exists(r)
              THEN /\ contacts' = contacts \ {r}
                   /\ g_ops' = WroteOps(l, r, NoContact)
                   /\ g_ver' = g_ver + 1
              ELSE UNCHANGED <<contacts, g_ops, g_ver>>
           /\ IF l.f_log
              THEN Move(t, <<"al_now">> \o Tail(pc[t]),
                        AuditArgs(l2, l.f_actor, "delete", l.f_id, l.f_before, NoContact))
              ELSE Move(t, Ret(pc[t]), l2)
    /\ UNCHANGED <<last_id, audit, csv_file, optout_file, now, nreq, g_csv, g_opt>>

----------------------------------------------------------------------------
(* export_contacts_csv_and_optouts()                                        *)

\* SELECT phone, name FROM contacts WHERE opted_out = 0 ORDER BY updated_at DESC
ex_in(t) ==
    /\ At(t, "ex_in")
    /\ \E s \in OrderedByUpdated({r \in contacts : r.opted_out = 0}) :
        Move(t, <<"ex_out">> \o Tail(pc[t]),
             [loc[t] EXCEPT !.x_in = [i \in 1..Len(s) |-> <<s[i].phone, s[i].name>>],
                            !.g_rver = g_ver])
    /\ UNCHANGED <<contacts, last_id, audit, csv_file, optout_file, now, nreq,
                   g_ops, g_ver, g_csv, g_opt>>

\* SELECT phone FROM contacts WHERE opted_out = 1 ORDER BY updated_at DESC
ex_out(t) ==
    /\ At(t, "ex_out")
    /\ \E s \in OrderedByUpdated({r \in contacts : r.opted_out = 1}) :
        Move(t, <<"ex_csv">> \o Tail(pc[t]),
             [loc[t] EXCEPT !.x_out = [i \in 1..Len(s) |-> s[i].phone],
                            !.g_xver = g_ver])
    /\ UNCHANGED <<contacts, last_id, audit, csv_file, optout_file, now, nreq,
                   g_ops, g_ver, g_csv, g_opt>>

\* open(EXPORT_CSV, "w"): the header and one row per opted-in contact
ex_csv(t) ==
    /\ At(t, "ex_csv")
    /\ csv_file' = loc[t].x_in
    /\ g_csv' = [rid |-> loc[t].rid, ver |-> loc[t].g_rver]
    /\ Move(t, <<"ex_opt">> \o Tail(pc[t]), loc[t])
    /\ UNCHANGED <<contacts, last_id, audit, optout_file, now, nreq,
                   g_ops, g_ver, g_opt>>

\* open(OPTOUT_FILE, "w"): one line per opted-out contact
ex_opt(t) ==
    /\ At(t, "ex_opt")
    /\ optout_file' = loc[t].x_out
    /\ g_opt' = [rid |-> loc[t].rid, ver |-> loc[t].g_xver]
    /\ Move(t, Ret(pc[t]), [loc[t] EXCEPT !.g_dirty = FALSE])
    /\ UNCHANGED <<contacts, last_id, audit, csv_file, now, nreq,
                   g_ops, g_ver, g_csv>>

----------------------------------------------------------------------------
(* Requests drawn by the model                                              *)

\* sender and form texts: two spellings of one number, a second number, and a
\* text that is no valid number
RAW_P1 == <<"(","4","1","2",")"," ","5","5","5","-","0","1","0","0">>
RAW_P1_E164 == <<"+","1","4","1","2","5","5","5","0","1","0","0">>
RAW_P2 == <<"1"," ","4","1","2"," ","5","5","5"," ","0","1","9","9">>
RAW_BAD == <<"1","2","3","4","5">>
P1 == normalize_e164(RAW_P1)
P2 == normalize_e164(RAW_P2)

SmsFroms == {RAW_P1, RAW_P1_E164, RAW_P2, RAW_BAD}
FormPhones == {RAW_P1, RAW_P2, RAW_BAD}

B_stop == <<"S","T","O","P">>
B_stopall == <<"S","t","o","p","A","l","l"," ","p","l","e","a","s","e">>
B_join == <<"j","o","i","n">>
B_start_stop == <<"S","T","A","R","T"," ","S","T","O","P">>
B_help_stop == <<"H","e","l","p"," ","q","u","i","t">>
B_help_join == <<" ","h","e","l","p"," ","J","O","I","N">>
B_joey == <<"J","o","e","y">>
B_digits == <<"4","2"," ","!","?">>
B_stopper == <<"S","t","o","p","p","e","r"," "," ","O","'","N","e","i","l","-","2">>

SmsBodies == {B_stopall, B_join, B_start_stop, B_help_stop, B_help_join,
              B_digits, B_stopper}

\* words and separators of the messages whose classification is checked:
\* keywords in three cases, words that contain a keyword, a plain word
W_stop == <<"s","t","o","p">>
W_Quit == <<"Q","u","i","t">>
W_info == <<"i","n","f","o">>
W_nostop == <<"n","o","s","t","o","p">>
W_stopper == <<"s","t","o","p","p","e","r">>
W_joined == <<"J","O","I","N","e","d">>
W_hi == <<"h","i">>
TokWords == {W_stop, B_stop, W_Quit, B_join, W_info, W_nostop, W_stopper, W_joined, W_hi}
TokSeps == {<<" ">>, <<"\t", " ", "\n">>}
\* the messages of n words: words joined by one separator, the message
\* starting with a space
RECURSIVE TokBodiesOf(_)
TokBodiesOf(n) ==
    IF n = 1 THEN {<<" ">> \o w : w \in TokWords}
    ELSE {b \o sep \o w : b \in TokBodiesOf(n - 1), sep \in TokSeps, w \in TokWords}
TokBodies == UNION {TokBodiesOf(n) : n \in 1..MaxWords}

N_ann == <<"A","n","n","1">>
FormNames == {<<>>, N_ann}
FormIds == {1, 2}
\* the "opted_out" field of an admin update: not sent, or sent as "0" or "1"
FormOpts == {NoValue, "0", "1"}

\* the requests drawn when threads run concurrently
ConcFroms == {RAW_P1, RAW_P2}
ConcBodies == {B_stop, B_join, B_joey}
ConcNames == {N_ann}
ConcIds == {1}

----------------------------------------------------------------------------
(* POST /sms: inbound_sms                                                   *)

\* a classification that looks for the opt-in keywords first
Classify_optin_first(toks) ==
    IF toks \cap OPTIN_KEYWORDS # {} THEN "optin"
    ELSE IF toks \cap OPTOUT_KEYWORDS # {} THEN "optout"
    ELSE IF toks \cap HELP_KEYWORDS # {} THEN "help"
    ELSE "text"

\* a classification that looks for the help keywords last
Classify_help_last(toks) ==
    IF toks \cap OPTOUT_KEYWORDS # {} THEN "optout"
    ELSE IF toks \cap OPTIN_KEYWORDS # {} THEN "optin"
    ELSE IF toks \cap HELP_KEYWORDS # {} THEN "help"
    ELSE "text"

\* the first of "if toks & OPTOUT_KEYWORDS", "if toks & HELP_KEYWORDS",
\* "if toks & OPTIN_KEYWORDS" that holds
Classify(toks) ==
    IF toks \cap OPTOUT_KEYWORDS # {} THEN "optout"
    ELSE IF toks \cap HELP_KEYWORDS # {} THEN "help"
    ELSE IF toks \cap OPTIN_KEYWORDS # {} THEN "optin"
    ELSE "text"

\* a handler that goes on with a sender it could not normalize
SenderValid_unchecked(phone) == TRUE

\* "if not phone": the sender was normalized
SenderValid(phone) == phone # None

\* a name capture that does not look at the consent state
AwaitsName_any_consent(c) == Exists(c) /\ Strip(c.name) = <<>>

\* "if c and int(c["opted_out"]) == 0 and ASK_NAME_ON_JOIN and not
\* (c["name"] or "").strip()": the contact is opted in and has no name
AwaitsName(c) ==
    Exists(c) /\ c.opted_out = 0 /\ ASK_NAME_ON_JOIN /\ Strip(c.name) = <<>>

\* the request arrives: From and Body are read, the sender is normalized, the
\* contact is looked up and the message is classified
inbound_sms(t, Froms, Bodies) ==
    /\ Idle(t)
    /\ nreq' = nreq + 1
    /\ \E from \in Froms, rawbody \in Bodies :
        LET body == Strip(rawbody)
            toks == tokens_upper(body)
            phone == normalize_e164(from)
            c == get_contact_by_phone(phone)
            name == clean_name(body)
            l0 == [InitLoc EXCEPT !.op = "sms", !.rid = nreq + 1, !.a_from = from,
                                  !.a_body = rawbody, !.phone = phone, !.c = c,
                                  !.cat = IF SenderValid(phone) THEN Classify(toks)
                                          ELSE "",
                                  !.status = 200,
                                  !.f_phone = phone, !.f_name = <<>>,
                                  !.f_actor = SYSTEM, !.f_log = TRUE]
            create == IF Exists(c) THEN <<>> ELSE <<"ac_now">>
        IN  IF ~SenderValid(phone)
            THEN Move(t, <<"done">>, [l0 EXCEPT !.reply = REPLY_INVALID])
            ELSE IF Classify(toks) = "optout"
            THEN Move(t, create \o <<"so_before", "ex_in", "fin">>,
                      [l0 EXCEPT !.f_val = 1, !.reply = REPLY_OPTOUT])
            ELSE IF Classify(toks) = "help"
            THEN Move(t, <<"done">>, [l0 EXCEPT !.reply = REPLY_HELP])
            ELSE IF Classify(toks) = "optin"
            THEN Move(t, create \o <<"so_before", "ex_in", "fin">>,
                      [l0 EXCEPT !.f_val = 0,
                                 !.reply = IF ~Exists(c) /\ ASK_NAME_ON_JOIN
                                           THEN REPLY_ASK_NAME
                                           ELSE REPLY_SUBSCRIBED])
            ELSE IF AwaitsName(c) /\ name # <<>>
            THEN Move(t, <<"nc_before", "ex_in", "fin">>,
                      [l0 EXCEPT !.name = name, !.reply = ReplyThanks(name)])
            ELSE Move(t, <<"done">>, [l0 EXCEPT !.reply = REPLY_DEFAULT])
    /\ UNCHANGED <<contacts, last_id, audit, csv_file, optout_file,
                   g_ops, g_ver, g_csv, g_opt>>

\* before = get_contact_by_phone(phone); update_contact(phone, phone, name)
nc_before(t) ==
    /\ At(t, "nc_before")
    /\ LET l == loc[t]
       IN  Move(t, <<"uc_old", "nc_after">> \o Tail(pc[t]),
                [l EXCEPT !.h_before = get_contact_by_phone(l.phone),
                          !.u_old = l.phone, !.u_new = l.phone, !.u_name = l.name])
    /\ UNCHANGED <<contacts, last_id, audit, csv_file, optout_file, now, nreq,
                   g_ops, g_ver, g_csv, g_opt>>

\* after = get_contact_by_phone(phone); if after: audit_log("system", "update", ...)
nc_after(t) ==
    /\ At(t, "nc_after")
    /\ LET l == loc[t]
           after == get_contact_by_phone(l.phone)
           l2 == [l EXCEPT !.h_after = after]
       IN  IF Exists(after)
           THEN Move(t, <<"al_now">> \o Tail(pc[t]),
                     AuditArgs(l2, SYSTEM, "update", after.id, l.h_before, after))
           ELSE Move(t, Tail(pc[t]), l2)
    /\ UNCHANGED <<contacts, last_id, audit, csv_file, optout_file, now, nreq,
                   g_ops, g_ver, g_csv, g_opt>>

----------------------------------------------------------------------------
(* Admin handlers (the session is authenticated: require_admin passes)      *)

\* POST /admin/add
admin_add(t, Phones, Names) ==
    /\ Idle(t)
    /\ nreq' = nreq + 1
    /\ \E raw_phone \in Phones, raw_name \in Names :
        LET phone == normalize_e164(raw_phone)
            name == clean_name(raw_name)
            l0 == [InitLoc EXCEPT !.op = "admin_add", !.rid = nreq + 1,
                                  !.a_from = raw_phone, !.a_name = raw_name,
                                  !.phone = phone, !.name = name, !.status = 200,
                                  !.f_phone = phone, !.f_name = name,
                                  !.f_actor = ADMIN_USER, !.f_log = TRUE]
        IN  IF phone = None
            THEN Move(t, <<"done">>, [l0 EXCEPT !.reply = MSG_ADD_INVALID])
            ELSE Move(t, <<"ac_now", "add_ret">>, l0)
    /\ UNCHANGED <<contacts, last_id, audit, csv_file, optout_file,
                   g_ops, g_ver, g_csv, g_opt>>

\* opted_out = 1 if str(opted_out_raw).strip() in {"1", "true", "True"} else 0
\* (str(None) is "None", so a payload without the field gives 0)
api_opted_out(opted_out_raw) ==
    IF opted_out_raw \in {"1", "true", "True"} THEN 1 ELSE 0

\* opted_out_raw = request.form.get("opted_out") or "0";
\* opted_out_val = 1 if str(opted_out_raw).strip() == "1" else 0
form_opted_out(opted_out_raw) ==
    LET raw == IF opted_out_raw = NoValue THEN "0" ELSE opted_out_raw
    IN  IF raw = "1" THEN 1 ELSE 0

\* POST /admin/api/contacts/<id>
admin_api_update_contact(t, Ids, Phones, Names, Opts) ==
    /\ Idle(t)
    /\ nreq' = nreq + 1
    /\ \E id \in Ids, raw_phone \in Phones, raw_name \in Names,
          opted_out_raw \in Opts :
        LET phone == normalize_e164(Strip(raw_phone))
            opted_out == api_opted_out(opted_out_raw)
            name == clean_name(Strip(raw_name))
            l0 == [InitLoc EXCEPT !.op = "admin_api_update", !.rid = nreq + 1,
                                  !.a_id = id, !.a_from = raw_phone,
                                  !.a_name = raw_name, !.a_opt = opted_out_raw,
                                  !.phone = phone, !.name = name,
                                  !.f_id = id, !.u_new = phone, !.u_name = name,
                                  !.f_val = opted_out, !.f_actor = ADMIN_USER]
        IN  IF phone = None
            THEN Move(t, <<"done">>, Raised(l0, 400, MSG_INVALID_PHONE))
            ELSE Move(t, <<"ui_before", "ex_in", "fin">>,
                      [l0 EXCEPT !.status = 200, !.reply = MSG_OK])
    /\ UNCHANGED <<contacts, last_id, audit, csv_file, optout_file,
                   g_ops, g_ver, g_csv, g_opt>>

\* POST /admin/api/contacts/<id>/delete
admin_api_delete_contact(t, Ids) ==
    /\ Idle(t)
    /\ nreq' = nreq + 1
    /\ \E id \in Ids :
        Move(t, <<"di_before", "apidel_ret">>,
             [InitLoc EXCEPT !.op = "admin_api_delete", !.rid = nreq + 1,
                             !.a_id = id, !.f_id = id, !.f_actor = ADMIN_USER,
                             !.f_log = TRUE])
    /\ UNCHANGED <<contacts, last_id, audit, csv_file, optout_file,
                   g_ops, g_ver, g_csv, g_opt>>

\* the form handlers that take a phone: normalize_e164(phone) or phone
AdminPhoneRequest(t, Phones, op, opted_out, first) ==
    /\ Idle(t)
    /\ nreq' = nreq + 1
    /\ \E raw \in Phones :
        LET n == normalize_e164(raw)
            phone == IF n # None THEN n ELSE raw
            l0 == [InitLoc EXCEPT !.op = op, !.rid = nreq + 1, !.a_from = raw,
                                  !.phone = phone, !.status = 302,
                                  !.reply = MSG_REDIRECT,
                                  !.f_phone = phone, !.f_val = opted_out,
                                  !.f_actor = ADMIN_USER, !.f_log = TRUE]
        IN  IF phone # <<>>
            THEN Move(t, <<first, "ex_in", "fin">>, l0)
            ELSE Move(t, <<"done">>, l0)
    /\ UNCHANGED <<contacts, last_id, audit, csv_file, optout_file,
                   g_ops, g_ver, g_csv, g_opt>>

\* POST /admin/contacts/optout
admin_contacts_optout(t, Phones) ==
    AdminPhoneRequest(t, Phones, "admin_optout", 1, "so_before")

\* POST /admin/contacts/optin
admin_contacts_optin(t, Phones) ==
    AdminPhoneRequest(t, Phones, "admin_optin", 0, "so_before")

\* POST /admin/contacts/delete
admin_contacts_delete(t, Phones) ==
    AdminPhoneRequest(t, Phones, "admin_delete", 0, "dc_before")

\* POST /admin/contacts/edit, up to before = get_contact_by_phone(old_phone)
admin_contacts_edit(t, OldPhones, Phones, Names, Opts) ==
    /\ Idle(t)
    /\ nreq' = nreq + 1
    /\ \E raw_old \in OldPhones, raw_new \in Phones, raw_name \in Names,
          opted_out_raw \in Opts :
        LET n == normalize_e164(raw_old)
            opted_out == form_opted_out(opted_out_raw)
            old_phone == IF n # None THEN n ELSE raw_old
            new_phone == normalize_e164(raw_new)
            new_name == clean_name(raw_name)
            l0 == [InitLoc EXCEPT !.op = "admin_edit", !.rid = nreq + 1,
                                  !.a_old = raw_old, !.a_from = raw_new,
                                  !.a_name = raw_name, !.a_opt = opted_out_raw,
                                  !.phone = new_phone, !.name = new_name,
                                  !.status = 200,
                                  !.u_old = old_phone, !.u_new = new_phone,
                                  !.u_name = new_name, !.f_val = opted_out,
                                  !.f_actor = ADMIN_USER]
        IN  IF new_phone = None
            THEN Move(t, <<"done">>, [l0 EXCEPT !.reply = MSG_INVALID_PHONE])
            ELSE Move(t, <<"uc_old", "ed_ret">>,
                      [l0 EXCEPT !.h_before = get_contact_by_phone(old_phone)])
    /\ UNCHANGED <<contacts, last_id, audit, csv_file, optout_file,
                   g_ops, g_ver, g_csv, g_opt>>

\* after = get_contact_by_phone(new_phone); if after: audit_log(actor, "update", ...)
ed_after(t) ==
    /\ At(t, "ed_after")
    /\ LET l == loc[t]
           after == get_contact_by_phone(l.u_new)
           l2 == [l EXCEPT !.h_after = after, !.status = 302, !.reply = MSG_REDIRECT]
       IN  IF Exists(after)
           THEN Move(t, <<"al_now">> \o Tail(pc[t]),
                     AuditArgs(l2, ADMIN_USER, "update", after.id, l.h_before, after))
           ELSE Move(t, Tail(pc[t]), l2)
    /\ UNCHANGED <<contacts, last_id, audit, csv_file, optout_file, now, nreq,
                   g_ops, g_ver, g_csv, g_opt>>

----------------------------------------------------------------------------
(* Specifications                                                           *)

\* init_db() on an empty database, no export written yet
Init ==
    /\ contacts = {}
    /\ last_id = 0
    /\ audit = <<>>
    /\ csv_file = <<>>
    /\ optout_file = <<>>
    /\ now = 0
    /\ pc = [t \in Threads |-> <<"idle">>]
    /\ loc = [t \in Threads |-> InitLoc]
    /\ nreq = 0
    /\ g_ops = <<>>
    /\ g_ver = 0
    /\ g_csv = [rid |-> 0, ver |-> 0]
    /\ g_opt = [rid |-> 0, ver |-> 0]

\* a request of any kind arrives at thread t
Arrive(t) ==
    \/ inbound_sms(t, SmsFroms, SmsBodies)
    \/ admin_add(t, FormPhones, FormNames)
    \/ admin_api_update_contact(t, FormIds, FormPhones, FormNames, FormOpts)
    \/ admin_api_delete_contact(t, FormIds)
    \/ admin_contacts_optout(t, FormPhones \cup {<<>>})
    \/ admin_contacts_optin(t, FormPhones \cup {<<>>})
    \/ admin_contacts_delete(t, FormPhones \cup {<<>>})
    \/ admin_contacts_edit(t, FormPhones, FormPhones, FormNames, FormOpts)

\* thread t runs the next statement of a store function or of the export
StoreStep(t, running) ==
    \/ al_now(t, running) \/ al_insert(t)
    \/ ac_now(t, running) \/ ac_insert(t) \/ ac_get(t)
    \/ so_before(t) \/ so_now(t, running) \/ so_update(t) \/ so_after(t)
    \/ uc_old(t) \/ uc_now(t, running) \/ uc_update(t)
    \/ ex_in(t) \/ ex_out(t) \/ ex_csv(t) \/ ex_opt(t)

\* thread t runs the next statement of the webhook
SmsStep(t, running) == StoreStep(t, running) \/ nc_before(t) \/ nc_after(t)

\* thread t runs the next statement of an admin handler
AdminStep(t, running) ==
    \/ uc_dup(t)
    \/ ui_before(t) \/ ui_existing(t) \/ ui_now(t, running) \/ ui_update(t)
    \/ ui_after(t)
    \/ dc_before(t) \/ dc_delete(t)
    \/ di_before(t) \/ di_delete(t)
    \/ ed_after(t)

\* webhook messages served one at a time
NextSms ==
    \/ /\ Quiescent
       /\ nreq < MaxSmsReqs
       /\ UNCHANGED now
       /\ inbound_sms(1, SmsFroms, SmsBodies)
    \/ SmsStep(1, TRUE)
SpecSms == Init /\ [][NextSms]_vars

\* the statements of the webhook that reach the database or the export files
PersistenceSteps ==
    {"ac_insert", "ac_get", "al_insert", "so_before", "so_update", "so_after",
     "nc_before", "uc_old", "uc_update", "nc_after",
     "ex_in", "ex_out", "ex_csv", "ex_opt"}

\* the statement the webhook is about to run fails (sqlite3.OperationalError
\* from conn.execute, OSError from open or write): inbound_sms has no try and
\* add_contact catches IntegrityError only, so the exception leaves the
\* handler and the server answers 500; what earlier statements committed stays
sms_raises(t) ==
    /\ ~Idle(t) /\ loc[t].op = "sms"
    /\ Head(pc[t]) \in PersistenceSteps
    /\ Move(t, <<"done">>, Raised(loc[t], 500, ERR_SERVER))
    /\ UNCHANGED <<contacts, last_id, audit, csv_file, optout_file, now, nreq,
                   g_ops, g_ver, g_csv, g_opt>>

\* webhook messages served one at a time by a store and a file system whose
\* operations may fail
NextFail ==
    \/ /\ Quiescent
       /\ nreq < MaxFailReqs
       /\ UNCHANGED now
       /\ inbound_sms(1, SmsFroms, SmsBodies)
    \/ SmsStep(1, FALSE)
    \/ sms_raises(1)
SpecFail == Init /\ [][NextFail]_vars

\* the webhook reads and classifies the first message, of a valid sender
NextTok ==
    pc[1] = <<"idle">> /\ UNCHANGED now /\ inbound_sms(1, {RAW_P1}, TokBodies)
SpecTok == Init /\ [][NextTok]_vars

\* bodies in pairs of equal token set: a keyword in two spellings, a name in
\* two spellings
B_join_twice == <<"J","O","I","N"," ","j","o","i","n">>
B_stop_low == <<"s","t","o","p">>
B_joey_low == <<"j","o","e","y">>
DetBodies == {B_join, B_join_twice, B_stop, B_stop_low, B_joey, B_joey_low}
DetFroms == {RAW_P1, RAW_P2}

\* the database and the export files, as a copy that can be put back
StoreCopy ==
    <<contacts, last_id, audit, csv_file, optout_file, g_ops, g_ver, g_csv, g_opt>>

\* Two runs of the webhook from one store. Thread 1 serves every message;
\* thread 2 serves none and keeps the comparison's records: pc[2] is "idle"
\* while messages build the store, "first" once the store is copied and the
\* first run is served, "second" once the store is put back and the second
\* run is served; loc[2] holds the copy (x_in) and, from "second" on, the
\* first run's request and response and the store it left (x_out).
BuildStore ==
    /\ pc[2] = <<"idle">>
    /\ nreq < MaxDetReqs
    /\ UNCHANGED now
    /\ inbound_sms(1, DetFroms, DetBodies)

CopyStore ==
    /\ pc[2] = <<"idle">> /\ Idle(1)
    /\ pc' = [pc EXCEPT ![1] = <<"idle">>, ![2] = <<"first">>]
    /\ loc' = [loc EXCEPT ![1] = InitLoc, ![2] = [InitLoc EXCEPT !.x_in = StoreCopy]]
    /\ UNCHANGED <<contacts, last_id, audit, csv_file, optout_file, now, nreq,
                   g_ops, g_ver, g_csv, g_opt>>

FirstRun ==
    /\ pc[2] = <<"first">> /\ pc[1] = <<"idle">>
    /\ UNCHANGED now
    /\ inbound_sms(1, DetFroms, DetBodies)

RestoreStore ==
    /\ pc[2] = <<"first">> /\ pc[1] = <<"done">>
    /\ contacts' = loc[2].x_in[1]
    /\ last_id' = loc[2].x_in[2]
    /\ audit' = loc[2].x_in[3]
    /\ csv_file' = loc[2].x_in[4]
    /\ optout_file' = loc[2].x_in[5]
    /\ g_ops' = loc[2].x_in[6]
    /\ g_ver' = loc[2].x_in[7]
    /\ g_csv' = loc[2].x_in[8]
    /\ g_opt' = loc[2].x_in[9]
    /\ pc' = [pc EXCEPT ![1] = <<"idle">>, ![2] = <<"second">>]
    /\ loc' = [loc EXCEPT ![1] = InitLoc,
                          ![2] = [loc[1] EXCEPT !.x_in = loc[2].x_in,
                                                !.x_out = <<contacts>>]]
    /\ UNCHANGED <<now, nreq>>

SecondRun ==
    /\ pc[2] = <<"second">> /\ pc[1] = <<"idle">>
    /\ UNCHANGED now
    /\ inbound_sms(1, {loc[2].a_from}, DetBodies)

\* the webhook served twice from the same store, at the same clock reading
NextDet ==
    \/ BuildStore
    \/ CopyStore
    \/ FirstRun
    \/ RestoreStore
    \/ SecondRun
    \/ SmsStep(1, FALSE)
SpecDet == Init /\ [][NextDet]_vars

\* requests of any kind served one at a time
NextSeq ==
    \/ Quiescent /\ nreq < MaxSeqReqs /\ UNCHANGED now /\ Arrive(1)
    \/ SmsStep(1, TRUE)
    \/ AdminStep(1, TRUE)
SpecSeq == Init /\ [][NextSeq]_vars

\* the state in which the webhook has served "join" from RAW_P1 on the empty
\* database: a state of SpecSms (SeedReached)
SeedRow == NewRow(1, P1, <<>>, 0)
SeedLoc ==
    [InitLoc EXCEPT !.op = "sms", !.rid = 1, !.a_from = RAW_P1, !.a_body = B_join,
                    !.phone = P1, !.cat = "optin", !.status = 200,
                    !.reply = REPLY_ASK_NAME,
                    !.g_mut = TRUE]
InitConc ==
    /\ contacts = {SeedRow}
    /\ last_id = 1
    /\ audit = << [actor |-> SYSTEM, action |-> "create", contact_id |-> 1,
                   before |-> NoContact, after |-> SeedRow, created_at |-> 0,
                   g_op |-> 1],
                  [actor |-> SYSTEM, action |-> "opt_in", contact_id |-> 1,
                   before |-> SeedRow, after |-> SeedRow, created_at |-> 0,
                   g_op |-> 2] >>
    /\ csv_file = << <<P1, <<>>>> >>
    /\ optout_file = <<>>
    /\ now = 0
    /\ pc = [t \in Threads |-> IF t = 1 THEN <<"done">> ELSE <<"idle">>]
    /\ loc = [t \in Threads |-> IF t = 1 THEN SeedLoc ELSE InitLoc]
    /\ nreq = 1
    /\ g_ops = << [cid |-> 1, before |-> NoContact, after |-> SeedRow],
                  [cid |-> 1, before |-> SeedRow, after |-> SeedRow] >>
    /\ g_ver = 2
    /\ g_csv = [rid |-> 1, ver |-> 2]
    /\ g_opt = [rid |-> 1, ver |-> 2]

\* SeedReached is violated in SpecSms: the webhook reaches the state InitConc
SeedReached == ~InitConc

\* a request arrives at the first free thread while others are being served;
\* the clock is seen to advance when a request arrives
ArriveConc(t) ==
    /\ nreq < MaxConcReqs
    /\ \A u \in Threads : u < t => ~Idle(u)
    /\ now' \in ClockReads(TRUE)
    /\ \/ inbound_sms(t, ConcFroms, ConcBodies)
       \/ admin_add(t, {RAW_P2}, ConcNames)
       \/ admin_api_update_contact(t, ConcIds, ConcFroms, ConcNames, {"1"})
       \/ admin_api_delete_contact(t, ConcIds)
       \/ admin_contacts_optout(t, ConcFroms)
       \/ admin_contacts_optin(t, {RAW_P1})
       \/ admin_contacts_delete(t, {RAW_P1})
       \/ admin_contacts_edit(t, {RAW_P1}, {RAW_P2}, ConcNames, {"0"})

\* requests served by concurrent threads
Next == \E t \in Threads : ArriveConc(t) \/ SmsStep(t, FALSE) \/ AdminStep(t, FALSE)
Spec == InitConc /\ [][Next]_vars

----------------------------------------------------------------------------
(* bulk_mms.py: send_bulk_mms(), run beside the web application             *)

\* load_optouts: {line.strip() for line in f if line.strip()}
load_optouts(lines) ==
    {Strip(lines[i]) : i \in {j \in 1..Len(lines) : Strip(lines[j]) # <<>>}}

\* a loader that keeps every row with a valid phone
RECURSIVE load_contacts_keep_duplicates(_, _)
load_contacts_keep_duplicates(rows, seen) ==
    IF rows = <<>> THEN <<>>
    ELSE LET phone == normalize_e164(Head(rows)[1])
             name == Strip(Head(rows)[2])
         IN  IF phone = None
             THEN load_contacts_keep_duplicates(Tail(rows), seen)
             ELSE <<[phone |-> phone, name |-> name]>>
                  \o load_contacts_keep_duplicates(Tail(rows), seen)

\* load_contacts: the rows of contacts.csv with a valid phone, normalized, the
\* first row of each phone only
RECURSIVE load_contacts(_, _)
load_contacts(rows, seen) ==
    IF rows = <<>> THEN <<>>
    ELSE LET phone == normalize_e164(Head(rows)[1])
             name == Strip(Head(rows)[2])
         IN  IF phone = None \/ phone \in seen
             THEN load_contacts(Tail(rows), seen)
             ELSE <<[phone |-> phone, name |-> name]>>
                  \o load_contacts(Tail(rows), seen \cup {phone})

\* a webhook request in the locals l is an opt-out of phone that has returned
\* its confirmation, resp. a request that opts phone in
ConfirmedOptOut(st, l, phone) ==
    /\ st = <<"done">> /\ l.op = "sms" /\ l.phone = phone
    /\ l.cat = "optout" /\ l.reply = REPLY_OPTOUT /\ l.status = 200
OptsIn(l, phone) ==
    /\ l.phone = phone
    /\ \/ l.op = "sms" /\ l.cat = "optin"
       \/ l.op \in {"admin_optin", "admin_api_update", "admin_edit", "admin_add"}

\* the phones whose opt-out the webhook has confirmed, no request other than
\* the seed's being an opt-in of the phone
ConfirmedOptOuts ==
    {p \in {loc[u].phone : u \in Threads} :
        \E u \in Threads :
            /\ ConfirmedOptOut(pc[u], loc[u], p)
            /\ \A v \in Threads \ {u} : ~OptsIn(loc[v], p)}

\* the script is started, once
send_bulk_mms(t) ==
    /\ Idle(t)
    /\ \A u \in Threads : loc[u].op # "bulk"
    /\ Move(t, <<"bm_optouts">>,
            [InitLoc EXCEPT !.op = "bulk", !.g_prot = ConfirmedOptOuts])
    /\ UNCHANGED <<contacts, last_id, audit, csv_file, optout_file, now, nreq,
                   g_ops, g_ver, g_csv, g_opt>>

\* optouts = load_optouts(OPTOUT_FILE)
bm_optouts(t) ==
    /\ At(t, "bm_optouts")
    /\ Move(t, <<"bm_contacts">>,
            [loc[t] EXCEPT !.b_optouts = load_optouts(optout_file)])
    /\ UNCHANGED <<contacts, last_id, audit, csv_file, optout_file, now, nreq,
                   g_ops, g_ver, g_csv, g_opt>>

\* contacts = load_contacts(CONTACTS_CSV)
bm_contacts(t) ==
    /\ At(t, "bm_contacts")
    /\ LET rows == load_contacts(csv_file, {})
       IN  Move(t, IF rows = <<>> THEN <<"done">> ELSE <<"bm_send">>,
                [loc[t] EXCEPT !.b_rows = rows])
    /\ UNCHANGED <<contacts, last_id, audit, csv_file, optout_file, now, nreq,
                   g_ops, g_ver, g_csv, g_opt>>

\* one turn of "for i, c in enumerate(contacts)": skip a phone listed in
\* optouts, else client.messages.create, which sends or raises
bm_send(t) ==
    /\ At(t, "bm_send")
    /\ LET l == loc[t]
           c == l.b_rows[l.b_i + 1]
           Results == IF c.phone \in l.b_optouts THEN {"SKIPPED_OPTOUT"}
                      ELSE {"SENT", "FAILED"}
       IN  \E status \in Results :
               Move(t, IF l.b_i + 1 = Len(l.b_rows) THEN <<"done">> ELSE <<"bm_send">>,
                    [l EXCEPT !.b_i = l.b_i + 1,
                              !.b_log = Append(l.b_log, [phone |-> c.phone,
                                                         name |-> c.name,
                                                         status |-> status])])
    /\ UNCHANGED <<contacts, last_id, audit, csv_file, optout_file, now, nreq,
                   g_ops, g_ver, g_csv, g_opt>>

\* a webhook message or an admin add arrives at the first free thread
ArriveBulk(t) ==
    /\ nreq < MaxConcReqs
    /\ \A u \in Threads : u < t => ~Idle(u)
    /\ now' \in ClockReads(TRUE)
    /\ \/ inbound_sms(t, ConcFroms, ConcBodies)
       \/ admin_add(t, {RAW_P2}, ConcNames)

\* concurrent requests, and one run of the bulk script after their arrival
NextBulk ==
    \E t \in Threads :
        \/ ArriveBulk(t)
        \/ SmsStep(t, FALSE)
        \/ nreq = MaxConcReqs /\ send_bulk_mms(t)
        \/ bm_optouts(t) \/ bm_contacts(t) \/ bm_send(t)
SpecBulk == InitConc /\ [][NextBulk]_vars

\* phone cells of contacts.csv: two spellings of one number, a second number,
\* a cell that is no phone number
CsvCells == {RAW_P1, RAW_P1_E164, RAW_P2, RAW_BAD}
\* lines of optouts.txt, as read: with their line end, one of them in a
\* spelling that is not E.164, one blank
OptoutLines == {P1 \o <<"\n">>, P2 \o <<"\n">>, RAW_P1 \o <<"\n">>, <<"\n">>}

\* the sequences over S of length at most n
SeqsUpTo(S, n) == UNION {[1..k -> S] : k \in 0..n}

\* the script finds files of any content, the web application not running
InitRun ==
    /\ contacts = {}
    /\ last_id = 0
    /\ audit = <<>>
    /\ csv_file \in {[i \in 1..Len(cells) |-> <<cells[i], <<>>>>] :
                        cells \in SeqsUpTo(CsvCells, MaxCsvRows)}
    /\ optout_file \in SeqsUpTo(OptoutLines, MaxOptoutLines)
    /\ now = 0
    /\ pc = [t \in Threads |-> <<"idle">>]
    /\ loc = [t \in Threads |-> InitLoc]
    /\ nreq = 0
    /\ g_ops = <<>>
    /\ g_ver = 0
    /\ g_csv = [rid |-> 0, ver |-> 0]
    /\ g_opt = [rid |-> 0, ver |-> 0]

\* one run of the bulk script
NextRun == send_bulk_mms(1) \/ bm_optouts(1) \/ bm_contacts(1) \/ bm_send(1)
SpecRun == InitRun /\ [][NextRun]_vars

\* bodies that hold an opt-out keyword
OutBodies == {B_stop, B_stopall}

\* a webhook message arrives at the first free thread: from RAW_P2, a number
\* the store does not know, only messages with an opt-out keyword; from RAW_P1
\* any message
ArriveOut(t) ==
    /\ nreq < MaxConcReqs
    /\ \A u \in Threads : u < t => ~Idle(u)
    /\ now' \in ClockReads(TRUE)
    /\ \/ inbound_sms(t, {RAW_P2}, OutBodies)
       \/ inbound_sms(t, {RAW_P1}, ConcBodies)

\* concurrent webhook deliveries, those of one number all opt-outs
NextOut == \E t \in Threads : ArriveOut(t) \/ SmsStep(t, FALSE)
SpecOut == InitConc /\ [][NextOut]_vars

----------------------------------------------------------------------------
(* Properties of the webhook, messages served one at a time (SpecSms)       *)

\* thread 1 has returned the reply of a webhook message from a valid sender
SmsDone == pc[1] = <<"done">> /\ loc[1].op = "sms" /\ loc[1].phone # None
\* the message, as the handler classifies it
SmsToks == tokens_upper(Strip(loc[1].a_body))
HasOptOut == SmsToks \cap OPTOUT_KEYWORDS # {}
HasHelp == SmsToks \cap HELP_KEYWORDS # {}
HasOptIn == SmsToks \cap OPTIN_KEYWORDS # {}
\* the sender's contact when the message arrived, and now
Prior == loc[1].c
Current == get_contact_by_phone(loc[1].phone)
CsvPhones == {csv_file[i][1] : i \in 1..Len(csv_file)}
OptoutPhones == {optout_file[i] : i \in 1..Len(optout_file)}

\* C1: once the webhook has returned its reply to a message of a valid sender
\* that contains an opt-out keyword, the sender's contact exists and is opted
\* out, whatever its state was before
C1_OptOutFromEveryState ==
    (SmsDone /\ HasOptOut) => (Exists(Current) /\ Current.opted_out = 1)

\* an opt-out was served for a contact that was opted in under a name
C1_Witness ==
    /\ SmsDone /\ HasOptOut
    /\ Exists(Prior) /\ Prior.opted_out = 0 /\ Prior.name # <<>>
    /\ Current.opted_out = 1

\* the other prior states of C1: absent, opted in without a name, opted out
C1_WitnessAbsent == SmsDone /\ HasOptOut /\ ~Exists(Prior) /\ Current.opted_out = 1
C1_WitnessNoName ==
    /\ SmsDone /\ HasOptOut /\ Exists(Prior) /\ Prior.opted_out = 0
    /\ Prior.name = <<>> /\ Current.opted_out = 1
C1_WitnessOptedOut ==
    SmsDone /\ HasOptOut /\ Exists(Prior) /\ Prior.opted_out = 1 /\ Current.opted_out = 1

\* C2: opt-out wins: a message with an opt-out keyword is answered with the
\* opt-out confirmation and leaves the contact opted out with the name it had
\* (none for a new contact), also when the message holds an opt-in or a help
\* keyword and when the contact awaits its name
C2_OptOutPrecedence ==
    (SmsDone /\ HasOptOut) =>
        /\ loc[1].reply = REPLY_OPTOUT
        /\ Exists(Current) /\ Current.opted_out = 1
        /\ Current.name = Prior.name

\* an opt-out that also holds an opt-in keyword, and would clean to a name,
\* was served for a contact awaiting its name
C2_Witness ==
    /\ SmsDone /\ HasOptOut /\ HasOptIn
    /\ clean_name(Strip(loc[1].a_body)) # <<>>
    /\ Exists(Prior) /\ Prior.opted_out = 0 /\ Prior.name = <<>>
    /\ Current.opted_out = 1 /\ Current.name = <<>>
    /\ loc[1].reply = REPLY_OPTOUT

\* the same with a help keyword in the message
C2_WitnessHelp ==
    /\ SmsDone /\ HasOptOut /\ HasHelp
    /\ Exists(Prior) /\ Prior.opted_out = 0 /\ Prior.name = <<>>
    /\ Current.opted_out = 1 /\ loc[1].reply = REPLY_OPTOUT

\* C3: the three messages of an unknown valid number. An opt-in keyword
\* creates the contact opted in without a name and the reply asks for the
\* name; a message without keyword whose cleaned body is not empty then
\* stores the cleaned body as the name, keeps the contact opted in and is
\* answered with the personalized confirmation; a message with an opt-out
\* keyword then opts the contact out and keeps the name, and the opted-out
\* file holds the phone and the opted-in file does not
C3_ThreeMessages ==
    /\ (SmsDone /\ ~HasOptOut /\ ~HasHelp /\ HasOptIn /\ ~Exists(Prior)) =>
            /\ Exists(Current) /\ Current.opted_out = 0 /\ Current.name = <<>>
            /\ loc[1].reply = REPLY_ASK_NAME
    /\ (/\ SmsDone /\ ~HasOptOut /\ ~HasHelp /\ ~HasOptIn
        /\ Exists(Prior) /\ Prior.opted_out = 0 /\ Prior.name = <<>>
        /\ clean_name(Strip(loc[1].a_body)) # <<>>) =>
            /\ Current.id = Prior.id
            /\ Current.name = clean_name(Strip(loc[1].a_body))
            /\ Current.opted_out = 0
            /\ loc[1].reply = ReplyThanks(clean_name(Strip(loc[1].a_body)))
    /\ (SmsDone /\ HasOptOut /\ Exists(Prior) /\ Prior.name # <<>>) =>
            /\ Current.id = Prior.id
            /\ Current.opted_out = 1 /\ Current.name = Prior.name
            /\ loc[1].phone \in OptoutPhones
            /\ loc[1].phone \notin CsvPhones

\* the third message has been answered: the audit log holds the creation, the
\* opt-in, the name and the opt-out of one contact, all by the webhook
C3_Witness ==
    /\ SmsDone /\ HasOptOut /\ nreq = 3
    /\ Len(audit) = 4
    /\ [i \in 1..4 |-> audit[i].action] = <<"create", "opt_in", "update", "opt_out">>
    /\ \A i \in 1..4 : audit[i].contact_id = Current.id /\ audit[i].actor = SYSTEM
    /\ Current.name = clean_name(B_stopper) /\ Current.opted_out = 1
    /\ loc[1].phone \in OptoutPhones /\ loc[1].phone \notin CsvPhones

\* C4: a message with an opt-in keyword and no opt-out or help keyword gets
\* the short confirmation only if the contact exists with a name; an absent
\* contact, or one without a name, is created if absent, opted in, and asked
\* for the first name
C4_AskNameUnlessNamed ==
    (SmsDone /\ ~HasOptOut /\ ~HasHelp /\ HasOptIn) =>
        /\ Exists(Current) /\ Current.opted_out = 0
        /\ loc[1].reply =
             IF Exists(Prior) /\ Prior.name # <<>>
             THEN REPLY_SUBSCRIBED ELSE REPLY_ASK_NAME

\* C5: a message with an opt-in keyword and no opt-out or help keyword leaves
\* the sender's contact opted in, whether it was absent, opted out or opted in
C5_OptInFromEveryState ==
    (SmsDone /\ ~HasOptOut /\ ~HasHelp /\ HasOptIn) =>
        (Exists(Current) /\ Current.opted_out = 0)

\* an opted-out contact has opted in again
C5_Witness ==
    /\ SmsDone /\ ~HasOptOut /\ ~HasHelp /\ HasOptIn
    /\ Exists(Prior) /\ Prior.opted_out = 1
    /\ Current.id = Prior.id /\ Current.opted_out = 0

\* the other prior states of C5: absent, and opted in already
C5_WitnessAbsent ==
    SmsDone /\ ~HasOptOut /\ ~HasHelp /\ HasOptIn /\ ~Exists(Prior) /\ Exists(Current)
C5_WitnessOptedIn ==
    /\ SmsDone /\ ~HasOptOut /\ ~HasHelp /\ HasOptIn
    /\ Exists(Prior) /\ Prior.opted_out = 0 /\ Current.opted_out = 0

----------------------------------------------------------------------------
(* Properties of the audit trail and of the export                          *)

\* audit entry e describes the logical mutation o of the history
Describes(e, o) ==
    /\ e.contact_id = o.cid
    /\ e.before = o.before
    /\ e.after = o.after
    /\ (e.action = "create") = ~Exists(o.before)
    /\ (e.action = "delete") = ~Exists(o.after)

\* C6: requests served one at a time: when a request has returned, every
\* logical mutation of a contact (create, update, opt-in, opt-out, delete) has
\* exactly one audit entry, written by the operation that made it, whose
\* before and after are the contact's row right before and right after the
\* mutation (no row before a create, none after a delete), and there is no
\* mutation without its entry
C6_OneAuditEntryPerMutation ==
    Quiescent =>
        /\ Len(audit) = Len(g_ops)
        /\ \A i \in 1..Len(audit) :
             audit[i].g_op = i /\ Describes(audit[i], g_ops[i])

\* an admin edit that renamed a contact and changed its consent was audited
\* as one update, after the audited creation of the contact
C6_Witness ==
    /\ Quiescent
    /\ \E i \in 1..Len(audit) :
        /\ audit[i].action = "update" /\ audit[i].actor = ADMIN_USER
        /\ audit[i].before.phone # audit[i].after.phone
        /\ audit[i].before.opted_out # audit[i].after.opted_out
        /\ Describes(audit[i], g_ops[i])
    /\ \E i \in 1..Len(audit) : audit[i].action = "create"

\* C7: under concurrent requests, every audit entry's before is the contact's
\* row at the instant the entry's mutation was applied, and when all
\* requests have returned every committed mutation has an audit entry
C7_NoStaleBeforeNoLostEntry ==
    /\ \A i \in 1..Len(audit) :
         audit[i].g_op # 0 => audit[i].before = g_ops[audit[i].g_op].before
    /\ Quiescent =>
         \A k \in 1..Len(g_ops) : \E i \in 1..Len(audit) : audit[i].g_op = k

\* the rows a refresh writes from the store as it is now
FreshCsv == {<<r.phone, r.name>> : r \in {x \in contacts : x.opted_out = 0}}
FreshOptouts == {r.phone : r \in {x \in contacts : x.opted_out = 1}}

\* C8: whenever all requests have returned, the opted-in file holds exactly
\* the (phone, name) of the contacts opted in and the opted-out file exactly
\* the phones of the contacts opted out
C8_ExportsMatchStore ==
    Quiescent =>
        /\ Range(csv_file) = FreshCsv /\ Len(csv_file) = Cardinality(FreshCsv)
        /\ Range(optout_file) = FreshOptouts
        /\ Len(optout_file) = Cardinality(FreshOptouts)

\* thread t is inside export_contacts_csv_and_optouts
InExport(t) == Head(pc[t]) \in {"ex_in", "ex_out", "ex_csv", "ex_opt"}
\* thread t has read the store for its refresh and not yet written both files
Refreshing(t) == Head(pc[t]) \in {"ex_out", "ex_csv", "ex_opt"}

\* C9: refreshes exclude each other: no two threads are inside a refresh at
\* once, and while no refresh runs the two files are the output of one refresh
C9_RefreshesExclusive ==
    /\ \A t, u \in Threads : t # u => ~(Refreshing(t) /\ Refreshing(u))
    /\ (\A t \in Threads : ~InExport(t)) => g_csv.rid = g_opt.rid

\* C10: a request that has returned its response has run an export refresh
\* after its last mutation of the contact store
C10_RefreshBeforeResponse ==
    \A t \in Threads : pc[t] = <<"done">> => ~loc[t].g_dirty

\* an admin edit and a webhook message have each mutated the store and returned
C10_Witness ==
    /\ \E t \in Threads :
        pc[t] = <<"done">> /\ loc[t].op = "admin_edit" /\ loc[t].g_mut
    /\ \E t \in Threads :
        pc[t] = <<"done">> /\ loc[t].op = "sms" /\ loc[t].g_mut

----------------------------------------------------------------------------
(* Properties of the store under concurrent requests (Spec)                 *)

\* C11: in every reachable state, also while creates, renames and webhook
\* messages run concurrently, no two contacts hold the same canonical phone
\* (nor the same id)
C11_OnePerPhone ==
    \A r1, r2 \in contacts : (r1.phone = r2.phone \/ r1.id = r2.id) => r1 = r2

\* two requests run at once for one phone and the INSERT of one of them is
\* about to meet the row the other has created
C11_Witness ==
    \E t, u \in Threads :
        /\ t # u /\ At(t, "ac_insert") /\ ~Idle(u)
        /\ loc[u].rid > 1 /\ loc[u].g_mut /\ loc[u].phone = loc[t].f_phone
        /\ UniqueViolation(loc[t].f_phone, 0)

\* a rename whose uniqueness check passed is about to write a phone that a
\* concurrent create has taken since
C11_WitnessRename ==
    \E t \in Threads :
        /\ Head(pc[t]) \in {"uc_update", "ui_update"}
        /\ Exists(get_contact_by_phone(loc[t].u_old)) \/ Exists(get_contact_by_id(loc[t].f_id))
        /\ loc[t].u_new # loc[t].u_old
        /\ UniqueViolation(loc[t].u_new, 1)

----------------------------------------------------------------------------
(* Properties of the webhook's replies and of its frame                     *)

\* the replies the webhook builds
WebhookReplies ==
    {REPLY_INVALID, REPLY_OPTOUT, REPLY_HELP, REPLY_SUBSCRIBED, REPLY_ASK_NAME,
     REPLY_DEFAULT}
    \cup {ReplyThanks(clean_name(Strip(b))) : b \in SmsBodies \cup ConcBodies}

\* C12: the webhook never raises: whatever the message and whatever the
\* outcome of the store, audit and export operations, a persistence failure
\* included, a served message has status 200 and one of the webhook's replies
C12_WebhookNeverRaises ==
    (pc[1] = <<"done">> /\ loc[1].op = "sms") =>
        (loc[1].status = 200 /\ loc[1].reply \in WebhookReplies)

\* a step leaves the store, the audit log and the export files untouched
\* (the files are not even rewritten)
Untouched ==
    UNCHANGED <<contacts, last_id, audit, csv_file, optout_file,
                g_ops, g_ver, g_csv, g_opt>>

\* the request with locals l is a webhook message whose sender is invalid
InvalidMsg(l) == l.op = "sms" /\ l.phone = None
\* thread 1 serves, or has served, such a message
ServingInvalid == InvalidMsg(loc[1])

\* C13 as stated: a message whose sender fails normalization is answered with
\* the text of the default step and every step of its handling leaves the
\* store, the audit log and the export files untouched, whatever the body
C13_InvalidSenderDefaultReply ==
    [][InvalidMsg(loc'[1]) =>
          /\ Untouched
          /\ pc'[1] = <<"done">>
          /\ loc'[1].reply = REPLY_DEFAULT]_vars

\* C13, amended: the same, the reply being the invalid-number text ("Invalid
\* number." followed by the instruction text), which is not the default text
C13_InvalidSenderNoMutation ==
    [][InvalidMsg(loc'[1]) =>
          /\ Untouched
          /\ pc'[1] = <<"done">>
          /\ loc'[1].status = 200
          /\ loc'[1].reply = REPLY_INVALID
          /\ loc'[1].reply # REPLY_DEFAULT]_vars

\* a message with an opt-out keyword from an invalid sender was answered
\* while the store held a contact
C13_Witness ==
    /\ pc[1] = <<"done">> /\ ServingInvalid
    /\ SmsToks \cap OPTOUT_KEYWORDS # {}
    /\ contacts # {}
    /\ loc[1].reply = REPLY_INVALID

\* the same with an opt-in keyword
C13_WitnessOptIn ==
    /\ pc[1] = <<"done">> /\ ServingInvalid
    /\ SmsToks \cap OPTIN_KEYWORDS # {} /\ SmsToks \cap OPTOUT_KEYWORDS = {}
    /\ loc[1].reply = REPLY_INVALID

\* the tokens of the message of the request with locals l
MsgToks(l) == tokens_upper(Strip(l.a_body))
\* the request with locals l is a help message of a valid sender
HelpMsg(l) ==
    /\ l.op = "sms" /\ l.phone # None
    /\ MsgToks(l) \cap OPTOUT_KEYWORDS = {}
    /\ MsgToks(l) \cap HELP_KEYWORDS # {}

\* C14: a message with a help keyword and no opt-out keyword is answered with
\* the instruction text and no step of its handling creates or changes a
\* contact, writes an audit entry or writes an export file, also when the
\* message holds an opt-in keyword or the contact awaits its name
C14_HelpChangesNothing ==
    [][HelpMsg(loc'[1]) =>
          /\ Untouched
          /\ pc'[1] = <<"done">>
          /\ loc'[1].status = 200
          /\ loc'[1].reply = REPLY_HELP]_vars

\* a help message that also holds an opt-in keyword was answered for a
\* contact opted in without a name, which still has no name
C14_Witness ==
    /\ SmsDone /\ HasHelp /\ HasOptIn /\ ~HasOptOut
    /\ AwaitsName(Prior) /\ Current = Prior
    /\ loc[1].reply = REPLY_HELP

\* a help message with an opt-in keyword from an unknown sender created nothing
C14_WitnessAbsent ==
    /\ SmsDone /\ HasHelp /\ HasOptIn /\ ~HasOptOut
    /\ ~Exists(Prior) /\ ~Exists(Current)

\* the request with locals l is a message of a valid sender without keyword
TextMsg(l) ==
    /\ l.op = "sms" /\ l.phone # None
    /\ MsgToks(l) \cap (OPTOUT_KEYWORDS \cup HELP_KEYWORDS \cup OPTIN_KEYWORDS) = {}
\* its body can be taken as the name: the sender's contact was opted in
\* without a name when the message arrived and the cleaned body is not empty
CapturableMsg(l) ==
    /\ Exists(l.c) /\ l.c.opted_out = 0 /\ l.c.name = <<>>
    /\ clean_name(Strip(l.a_body)) # <<>>
\* thread 1 serves, or has served, such messages
ServingText == TextMsg(loc[1])
Capturable == CapturableMsg(loc[1])
\* a step changes the name of a contact
NameChanged ==
    \E r \in contacts : \E r2 \in contacts' : r.id = r2.id /\ r.name # r2.name

\* C15: the webhook changes a name only while it serves a message without
\* keyword whose sender's contact was opted in without a name; a message
\* without keyword that is not capturable (cleaned body empty, contact
\* absent, opted out or named) is answered with the default text and no step
\* of its handling touches the store, the audit log or the export files
C15_NameCaptureOnlyWhenAwaited ==
    [][/\ NameChanged => (TextMsg(loc'[1]) /\ CapturableMsg(loc'[1]))
       /\ (TextMsg(loc'[1]) /\ ~CapturableMsg(loc'[1])) =>
             /\ Untouched
             /\ pc'[1] = <<"done">>
             /\ loc'[1].reply = REPLY_DEFAULT]_vars

\* a text that cleans to a name, from an opted-out contact without a name,
\* was answered with the default text and the contact is as it was
C15_Witness ==
    /\ SmsDone /\ ServingText
    /\ clean_name(Strip(loc[1].a_body)) # <<>>
    /\ Exists(Prior) /\ Prior.opted_out = 1 /\ Prior.name = <<>>
    /\ Current = Prior /\ loc[1].reply = REPLY_DEFAULT

\* the other cases of C15: the cleaned body is empty for a contact awaiting
\* its name; the contact has a name; the sender is unknown; and a capture
C15_WitnessEmptyClean ==
    /\ SmsDone /\ ServingText /\ clean_name(Strip(loc[1].a_body)) = <<>>
    /\ AwaitsName(Prior) /\ Current = Prior /\ loc[1].reply = REPLY_DEFAULT
C15_WitnessNamed ==
    /\ SmsDone /\ ServingText /\ clean_name(Strip(loc[1].a_body)) # <<>>
    /\ Exists(Prior) /\ Prior.opted_out = 0 /\ Prior.name # <<>>
    /\ Current = Prior /\ loc[1].reply = REPLY_DEFAULT
C15_WitnessAbsent ==
    /\ SmsDone /\ ServingText /\ clean_name(Strip(loc[1].a_body)) # <<>>
    /\ ~Exists(Prior) /\ ~Exists(Current) /\ loc[1].reply = REPLY_DEFAULT
C15_WitnessCaptured ==
    /\ SmsDone /\ ServingText /\ Capturable
    /\ Current.name = clean_name(Strip(loc[1].a_body))

----------------------------------------------------------------------------
(* Classification of a message (SpecTok)                                    *)

\* s[i..j] is a word of s: a run without whitespace, bounded by whitespace
\* or by the ends of s
IsWordAt(s, i, j) ==
    /\ i <= j
    /\ \A k \in i..j : s[k] \notin WhiteSpace
    /\ (i = 1 \/ s[i - 1] \in WhiteSpace)
    /\ (j = Len(s) \/ s[j + 1] \in WhiteSpace)
\* word w equals keyword k up to the case of the letters
SameUpToCase(w, k) ==
    Len(w) = Len(k) /\ \A i \in 1..Len(w) : UpperChar(w[i]) = k[i]
\* some word of s equals, up to case, a keyword of K
HasKeyword(s, K) ==
    \E i \in 1..Len(s), j \in 1..Len(s) :
        IsWordAt(s, i, j) /\ \E k \in K : SameUpToCase(SubSeq(s, i, j), k)

\* C16: a word of the body equals a keyword up to case if and only if the
\* token set meets the keyword set, for each of the three sets, whatever the
\* order, the repetitions and the case of the words; and the webhook
\* classifies the message by it: opt-out if a word equals an opt-out
\* keyword, else help, else opt-in by the same test, else plain text. A word
\* that only contains a keyword does not match
C16_ClassifiedByTokenEquality ==
    (loc[1].op = "sms" /\ loc[1].phone # None) =>
        LET b == loc[1].a_body
            toks == tokens_upper(Strip(b))
            out == HasKeyword(b, OPTOUT_KEYWORDS)
            help == HasKeyword(b, HELP_KEYWORDS)
            in == HasKeyword(b, OPTIN_KEYWORDS)
        IN  /\ (toks \cap OPTOUT_KEYWORDS # {}) = out
            /\ (toks \cap HELP_KEYWORDS # {}) = help
            /\ (toks \cap OPTIN_KEYWORDS # {}) = in
            /\ loc[1].cat = IF out THEN "optout" ELSE IF help THEN "help"
                            ELSE IF in THEN "optin" ELSE "text"

\* a lower-case opt-out keyword between two other words, one of which
\* contains a keyword, is classified as opt-out
C16_Witness ==
    /\ loc[1].op = "sms"
    /\ loc[1].a_body = <<" ">> \o W_stopper \o <<" ">> \o W_stop \o <<"\t", " ", "\n">> \o W_hi
    /\ loc[1].cat = "optout"

\* words that contain "stop" or "join" without being equal to it match nothing
C16_WitnessSubstring ==
    /\ loc[1].op = "sms"
    /\ loc[1].a_body = <<" ">> \o W_nostop \o <<" ">> \o W_stopper \o <<" ">> \o W_joined
    /\ loc[1].cat = "text"

\* the same keyword twice, in two cases, and the order of two keywords
C16_WitnessOrder ==
    /\ loc[1].op = "sms"
    /\ loc[1].a_body \in {<<" ">> \o B_join \o <<" ">> \o W_Quit,
                         <<" ">> \o W_Quit \o <<" ">> \o B_join,
                         <<" ">> \o W_stop \o <<" ">> \o B_stop}
    /\ loc[1].cat = "optout"

----------------------------------------------------------------------------
(* Errors of the admin operations                                           *)

AdminWrites == {"admin_add", "admin_api_update", "admin_edit"}

\* C17: an admin create or update that met a uniqueness conflict (the phone
\* exists already, or the new phone belongs to another contact, also when
\* that contact was created between the check and the write) has answered
\* with the conflict error of its route and has written nothing to the
\* store, and so nothing to the audit log or the export files
C17_ConflictReportedNoMutation ==
    \A t \in Threads :
        (pc[t] = <<"done">> /\ loc[t].op \in AdminWrites /\ loc[t].g_conf) =>
            /\ loc[t].reply \in {MSG_ALREADY_ADDED, ERR_EXISTS}
            /\ loc[t].status \in {200, 400}
            /\ ~loc[t].g_mut

\* the not-found answers of the admin routes
NotFoundReplies == {ERR_NOT_FOUND}

\* C18: an admin update, consent change or delete that addressed an id or a
\* phone no contact had has answered with a not-found outcome that differs
\* from the answer of a successful request, has raised nothing (no status
\* 500) and has written nothing to the store and the audit log
C18_NotFoundReported ==
    \A t \in Threads :
        (pc[t] = <<"done">> /\ loc[t].op # "sms" /\ loc[t].g_nf) =>
            /\ loc[t].reply \in NotFoundReplies
            /\ loc[t].status # 500
            /\ ~loc[t].g_mut

\* thread t takes the UPDATE step of set_opted_out
ConsentWrite(t) == At(t, "so_update") /\ pc'[t] # pc[t]

\* C19: whenever a request, webhook or admin, executes the UPDATE of
\* set_opted_out, a contact with the addressed phone exists at that moment,
\* so the consent change is never a silent no-op on an absent contact
C19_ConsentWriteOnExisting ==
    [][\A t \in Threads :
          ConsentWrite(t) => Exists(get_contact_by_phone(loc[t].f_phone))]_vars

\* the same for the webhook alone, which creates the contact first
C19_WebhookConsentWriteOnExisting ==
    [][\A t \in Threads :
          (ConsentWrite(t) /\ loc[t].op = "sms") =>
              Exists(get_contact_by_phone(loc[t].f_phone))]_vars

\* the admin requests that update the fields of a contact
FieldUpdates == {"admin_api_update", "admin_edit"}

\* thread t takes a step of a field update that supplied no consent state
UpdateStepWithoutConsent(t) ==
    /\ loc[t].op \in FieldUpdates
    /\ loc[t].a_opt = NoValue
    /\ pc'[t] # pc[t]

\* C20: no step of an admin field update that supplied no consent state
\* changes the opted_out of a contact: a contact that is in the store before
\* and after the step has the same consent state
C20_UpdateWithoutConsentKeepsConsent ==
    [][(\E t \in Threads : UpdateStepWithoutConsent(t)) =>
          \A c \in contacts : \A c2 \in contacts' :
              c2.id = c.id => c2.opted_out = c.opted_out]_vars

\* the part of C20 that holds: a field update whose consent field is absent
\* or "0" never turns an OPTED_IN contact into an OPTED_OUT one
C20_UpdateWithoutConsentNeverOptsOut ==
    [][(\E t \in Threads : UpdateStepWithoutConsent(t)) =>
          \A c \in contacts : \A c2 \in contacts' :
              (c2.id = c.id /\ c.opted_out = 0) => c2.opted_out = 0]_vars

----------------------------------------------------------------------------
(* Properties of the audit log, of the rows and of the listing              *)

\* thread t executes the INSERT of audit_log
AuditWrite(t) == At(t, "al_insert") /\ pc'[t] # pc[t]

\* the identity an audit entry of a request of kind op has to carry
ActorOf(op) == IF op = "sms" THEN SYSTEM ELSE ADMIN_USER

\* an admin request that has returned has changed the store
AdminMutated(t) ==
    pc[t] = <<"done">> /\ loc[t].op \notin {"none", "sms"} /\ loc[t].g_mut

\* C21: requests served one at a time: every audit entry written by an admin
\* request carries the admin identity (never "system"), every audit entry
\* written by the webhook carries "system", and when an admin request that
\* changed the store has returned, the newest audit entry is the entry of its
\* mutation and carries the admin identity
C21_ActorAttributed ==
    /\ [][\A t \in Threads :
            AuditWrite(t) =>
                /\ Len(audit') = Len(audit) + 1
                /\ audit'[Len(audit')].actor = ActorOf(loc[t].op)]_vars
    /\ [](\A t \in Threads :
            AdminMutated(t) =>
                /\ audit # <<>>
                /\ audit[Len(audit)].actor = ADMIN_USER
                /\ audit[Len(audit)].actor # SYSTEM
                /\ audit[Len(audit)].g_op = Len(g_ops))

\* admin requests have created, updated, changed the consent of and deleted
\* contacts, after the webhook had written entries of its own
C21_Witness ==
    /\ Quiescent
    /\ \E i \in 1..Len(audit) : audit[i].actor = SYSTEM
    /\ \E i \in 1..Len(audit) :
          audit[i].actor = ADMIN_USER /\ audit[i].action \in {"opt_out", "opt_in"}
    /\ audit[Len(audit)].actor = ADMIN_USER /\ audit[Len(audit)].action = "delete"

\* an admin request has created a contact and another has updated it
C21_WitnessCreateUpdate ==
    /\ Quiescent
    /\ \E i, j \in 1..Len(audit) :
          /\ audit[i].actor = ADMIN_USER /\ audit[i].action = "create"
          /\ audit[j].actor = ADMIN_USER /\ audit[j].action = "update"

\* the ids of the contacts in the store
ContactIds == {c.id : c \in contacts}

\* thread t executes the DELETE of an admin delete request
AdminDeleteStep(t) ==
    /\ loc[t].op \in {"admin_delete", "admin_api_delete"}
    /\ pc[t] # <<>> /\ Head(pc[t]) \in {"dc_delete", "di_delete"}
    /\ pc'[t] # pc[t]

\* C22: a step that removes a contact id from the store is the DELETE of an
\* admin delete request: no step of the webhook, whatever the sender, the
\* body and the contact's state, removes a contact
C22_OnlyAdminDeleteRemoves ==
    [][(\E c \in contacts : \A c2 \in contacts' : c2.id # c.id) =>
          \E t \in Threads : AdminDeleteStep(t)]_vars

\* the webhook has changed the store after an admin delete had removed a
\* contact from it
C22_Witness ==
    /\ SmsDone /\ loc[1].g_mut /\ Exists(Current)
    /\ \E i \in 1..Len(audit) :
          audit[i].action = "delete" /\ audit[i].actor = ADMIN_USER

\* the webhook has served an opt-out of an opted-in contact
C22_WitnessOptOut ==
    /\ SmsDone /\ Exists(Prior) /\ Prior.opted_out = 0
    /\ Current.id = Prior.id /\ Current.opted_out = 1

\* C23: the audit log is append-only: no step of any operation removes or
\* changes an entry written before, the entries of contacts deleted since
\* included
C23_AuditAppendOnly ==
    [][/\ Len(audit') >= Len(audit)
       /\ \A i \in 1..Len(audit) : audit'[i] = audit[i]]_vars

\* the log holds an entry of a contact that has been deleted since, followed
\* by an entry of another contact
C23_Witness ==
    \E i, j \in 1..Len(audit) :
        /\ i < j
        /\ audit[i].contact_id # 0
        /\ ~Exists(get_contact_by_id(audit[i].contact_id))
        /\ audit[j].contact_id # audit[i].contact_id
        /\ audit[j].action # "delete"

\* a deleted contact's phone has been created again: the log holds the
\* entries of both contacts
C23_WitnessRecreated ==
    \E i, j \in 1..Len(audit) :
        /\ i < j
        /\ audit[i].action = "delete" /\ audit[j].action = "create"
        /\ audit[i].before.phone = audit[j].after.phone

\* C24: the created_at of the audit entries never decreases along the log,
\* whatever the interleaving of the requests that write them
C24_AuditTimesNonDecreasing ==
    \A i, j \in 1..Len(audit) : i < j => audit[i].created_at <= audit[j].created_at


\* C25: no step changes the created_at of a contact that stays in the store,
\* and in every state every contact's updated_at is at or after its created_at
C25_CreatedAtFixedUpdatedAtLater ==
    /\ [][\A c \in contacts : \A c2 \in contacts' :
             c2.id = c.id => c2.created_at = c.created_at]_vars
    /\ [](\A c \in contacts : c.updated_at >= c.created_at)


\* the logical mutations of the history that created a contact
Creations == {k \in 1..Len(g_ops) : ~Exists(g_ops[k].before)}

\* C26: a contact that enters the store gets an id larger than every id
\* assigned before, also after deletes and for a phone that is created again,
\* so that no two creations ever share an id and a contact_id of the audit
\* log stands for one contact only
C26_IdsNeverReused ==
    /\ [][\A c2 \in contacts' :
             c2.id \notin ContactIds =>
                 /\ c2.id > last_id
                 /\ \A k \in 1..Len(g_ops) : g_ops[k].cid # c2.id
                 /\ \A i \in 1..Len(audit) : audit[i].contact_id # c2.id]_vars
    /\ [](\A i, j \in Creations : g_ops[i].cid = g_ops[j].cid => i = j)

\* a phone whose contact was deleted has been created again, as a contact
\* with another id
C26_Witness ==
    \E i, j \in Creations :
        /\ i < j
        /\ g_ops[i].after.phone = g_ops[j].after.phone
        /\ ~Exists(get_contact_by_id(g_ops[i].cid))
        /\ Exists(get_contact_by_id(g_ops[j].cid))
        /\ \E k \in 1..Len(audit) :
              audit[k].action = "delete" /\ audit[k].contact_id = g_ops[i].cid

\* the contact with the largest id has been deleted and a contact of another
\* phone created afterwards
C26_WitnessOtherPhone ==
    \E i, j \in Creations :
        /\ i < j
        /\ g_ops[i].after.phone # g_ops[j].after.phone
        /\ ~Exists(get_contact_by_id(g_ops[i].cid))
        /\ ContactIds = {g_ops[j].cid}


----------------------------------------------------------------------------
(* Determinism of the webhook: two runs from one store (SpecDet)            *)

\* both runs have returned: loc[2] holds the first, loc[1] the second
Compared == pc[2] = <<"second">> /\ pc[1] = <<"done">>

\* the set of upper-cased whitespace-separated tokens of a body
TokenSet(b) == SplitSet(Strip(Upper(b)), <<>>)
SameTokenSet == TokenSet(loc[1].a_body) = TokenSet(loc[2].a_body)

\* the two runs answered the same and left the same contacts
SameOutcome ==
    /\ loc[1].reply = loc[2].reply
    /\ loc[1].status = loc[2].status
    /\ <<contacts>> = loc[2].x_out

\* the name the run with locals l takes from its body: the sanitized body when
\* the message has no keyword and the sender's contact awaits its name
CandidateName(l) ==
    IF /\ TokenSet(l.a_body) \cap
            (OPTOUT_KEYWORDS \cup HELP_KEYWORDS \cup OPTIN_KEYWORDS) = {}
       /\ Exists(l.c) /\ l.c.opted_out = 0 /\ Strip(l.c.name) = <<>>
    THEN clean_name(Strip(l.a_body))
    ELSE <<>>

\* C27 as stated: two runs of the webhook from the same store, for the same
\* sender and with bodies of the same token set, give the same reply and
\* leave the same contacts
C27_DeterministicInTokenSet ==
    (Compared /\ SameTokenSet) => SameOutcome

\* C27, amended: two runs of the webhook from the same store, for the same
\* sender, with bodies of the same token set and of the same candidate name
\* (the sanitized body, where name capture applies), give the same reply and
\* leave the same contacts
C27_DeterministicInTokensAndName ==
    (Compared /\ SameTokenSet /\ CandidateName(loc[1]) = CandidateName(loc[2])) =>
        SameOutcome

\* two runs with different bodies of the same token set, an opt-in keyword,
\* have both changed the store
C27_Witness ==
    /\ Compared /\ SameTokenSet /\ SameOutcome
    /\ loc[1].a_body # loc[2].a_body
    /\ loc[1].cat = "optin" /\ loc[1].g_mut /\ loc[2].g_mut

\* two runs with the same body have both captured the same name
C27_WitnessName ==
    /\ Compared /\ SameOutcome
    /\ loc[1].a_body = loc[2].a_body
    /\ CandidateName(loc[1]) # <<>> /\ loc[1].g_mut
    /\ loc[1].reply = ReplyThanks(CandidateName(loc[1]))

\* two runs with bodies of the same token set have captured different names
C27_WitnessSpelling ==
    /\ Compared /\ SameTokenSet
    /\ CandidateName(loc[1]) # CandidateName(loc[2])
    /\ loc[1].g_mut /\ loc[2].g_mut


----------------------------------------------------------------------------
(* Order of the export                                                      *)

\* the position in the history of the latest mutation of the contact that
\* holds phone now (0: none)
LastMutation(phone) ==
    LET c == get_contact_by_phone(phone)
        K == {k \in 1..Len(g_ops) : g_ops[k].cid = c.id}
    IN  IF K = {} THEN 0 ELSE CHOOSE k \in K : \A o \in K : o <= k

\* the phones of the two export files, in file order
CsvOrder == [i \in 1..Len(csv_file) |-> csv_file[i][1]]
OptoutOrder == optout_file

\* the phones s are in the order of their contacts' latest mutations, the
\* most recent first
RecentFirst(s) ==
    \A i, j \in 1..Len(s) :
        LastMutation(s[i]) > LastMutation(s[j]) => i < j

\* C28: requests served one at a time: when a request has returned, each
\* export file lists a contact whose latest mutation happened after another
\* contact's latest mutation before that other contact
C28_MostRecentlyTouchedFirst ==
    Quiescent => RecentFirst(CsvOrder) /\ RecentFirst(OptoutOrder)

\* the phones s are in descending order of their contacts' updated_at
ByUpdatedAt(s) ==
    \A i, j \in 1..Len(s) :
        i < j => get_contact_by_phone(s[i]).updated_at >=
                 get_contact_by_phone(s[j]).updated_at

\* the part of C28 that holds: when a request has returned, each export file
\* is in descending order of updated_at
C28_ExportOrderedByUpdatedAt ==
    Quiescent => ByUpdatedAt(CsvOrder) /\ ByUpdatedAt(OptoutOrder)


----------------------------------------------------------------------------
(* The bulk run against the export (SpecBulk)                               *)

\* the phones a bulk run has handed to the carrier
SentTo(l) == {l.b_log[i].phone : i \in {j \in 1..Len(l.b_log) : l.b_log[j].status = "SENT"}}

\* C29: a bulk run never sends to a phone whose opt-out the webhook had
\* confirmed before the run started, no opt-in of the phone following, also
\* when other requests were in flight beside the opt-out
C29_BulkSkipsConfirmedOptOuts ==
    \A t \in Threads :
        loc[t].op = "bulk" => SentTo(loc[t]) \cap loc[t].g_prot = {}


----------------------------------------------------------------------------
(* Name capture under concurrent requests (Spec)                            *)

\* thread t, serving a webhook message, executes the UPDATE of update_contact
\* and the statement changes a row: the captured name is written
NameCaptureWrite(t) ==
    /\ loc[t].op = "sms"
    /\ At(t, "uc_update")
    /\ contacts' # contacts

\* the row the webhook's UPDATE of thread t addresses
CaptureTarget(t) == get_contact_by_phone(loc[t].u_old)

\* the webhook never stores a name on a contact that is opted out at the write
C30_NoCaptureOnOptedOut ==
    [][\A t \in Threads :
          NameCaptureWrite(t) => CaptureTarget(t).opted_out = 0]_vars

\* the webhook never overwrites a name that is non-empty at the write
C30_NoCaptureOverName ==
    [][\A t \in Threads :
          NameCaptureWrite(t) => Strip(CaptureTarget(t).name) = <<>>]_vars

\* C30: under concurrent requests the webhook writes a captured name only to a
\* contact that, at the moment of the write, is opted in and has an empty name
C30_CaptureOnlyWhenAwaitingName ==
    [][\A t \in Threads :
          NameCaptureWrite(t) =>
              /\ CaptureTarget(t).opted_out = 0
              /\ Strip(CaptureTarget(t).name) = <<>>]_vars


\* no admin request is being served or has written to the store
WebhooksOnly ==
    /\ \A u \in Threads : loc[u].op \in {"sms", "none"}
    /\ \A i \in 1..Len(audit) : audit[i].actor = SYSTEM

\* the same as C30_NoCaptureOverName among webhook deliveries alone
C30_NoCaptureOverNameAmongWebhooks ==
    [][\A t \in Threads :
          (WebhooksOnly /\ NameCaptureWrite(t)) =>
              Strip(CaptureTarget(t).name) = <<>>]_vars


----------------------------------------------------------------------------
(* A number that has only ever sent opt-outs (SpecOut)                      *)

\* no contact with the phone P2 is stored opted in
C31_NeverStoredOptedIn ==
    \A c \in contacts : c.phone = P2 => c.opted_out = 1

\* the phone P2 is not in the opted-in export file
C31_NeverExportedOptedIn == P2 \notin CsvPhones

\* C31: P2, whose only inbound messages hold opt-out keywords, is in no
\* reachable state stored opted in or listed in the opted-in export file
C31_OptOutOnlyNeverOptedIn ==
    /\ \A c \in contacts : c.phone = P2 => c.opted_out = 1
    /\ P2 \notin CsvPhones


----------------------------------------------------------------------------
(* The two export files against each other                                  *)

\* C32: in every reachable state, also while requests run concurrently, no
\* phone is listed in both the opted-in and the opted-out export file
C32_ExportFilesDisjoint == CsvPhones \cap OptoutPhones = {}

\* the same in the states in which no request is being served
C32_ExportFilesDisjointAtRest ==
    Quiescent => CsvPhones \cap OptoutPhones = {}


----------------------------------------------------------------------------
(* Two concurrent keyword messages from an unknown number (Spec)            *)

\* the request in the locals l is a webhook message from RAW_P2, a number the
\* seeded store does not know, that holds an opt-in or an opt-out keyword
FirstContact(l) ==
    /\ l.op = "sms" /\ l.phone = P2
    /\ l.cat \in {"optin", "optout"}

\* both threads serve such a message: the two requests overlap, since a
\* request arrives at the first free thread
PairServed == \A t \in Threads : FirstContact(loc[t])
PairDone == PairServed /\ Quiescent

\* the audit entries that record the creation of a contact with phone P2
CreateEntries ==
    {i \in 1..Len(audit) : audit[i].action = "create" /\ audit[i].after.phone = P2}

\* the reply of a keyword message that was served without failure
KeywordReply(l) ==
    /\ l.status = 200
    /\ \/ l.cat = "optout" /\ l.reply = REPLY_OPTOUT
       \/ l.cat = "optin" /\ l.reply \in {REPLY_ASK_NAME, REPLY_SUBSCRIBED}

\* while the two requests are served, each consent update that commits sets
\* the consent state of P2's contact to the value of its request, and no other
\* step changes the consent state
LastWriteWins ==
    PairServed =>
        /\ \A t \in Threads :
              (ConsentWrite(t) /\ Exists(get_contact_by_phone(P2))) =>
                  \A c2 \in contacts' : c2.phone = P2 => c2.opted_out = loc[t].f_val
        /\ (\A t \in Threads : ~ConsentWrite(t)) =>
              \A c \in contacts : \A c2 \in contacts' :
                  (c.id = c2.id /\ c.phone = P2) => c2.opted_out = c.opted_out

\* C33: two webhook keyword messages from one unknown number, served
\* concurrently, leave exactly one contact and exactly one 'create' audit
\* entry for it, both return their reply, and the consent state is the one of
\* the consent update that committed last
C33_ConcurrentFirstContact ==
    /\ [](PairDone =>
            /\ Cardinality({c \in contacts : c.phone = P2}) = 1
            /\ Cardinality(CreateEntries) = 1
            /\ \A i \in CreateEntries :
                  audit[i].contact_id = get_contact_by_phone(P2).id
            /\ \A t \in Threads : KeywordReply(loc[t]))
    /\ [][LastWriteWins]_vars

\* both requests found the number unknown and one of them lost the INSERT
C33_Witness ==
    /\ PairDone
    /\ \A t \in Threads : ~Exists(loc[t].c)
    /\ \E t \in Threads : loc[t].g_conf

\* an opt-out and an opt-in raced and the opt-in committed last
C33_WitnessOptInLast ==
    /\ PairDone
    /\ \E t, u \in Threads : loc[t].cat = "optout" /\ loc[u].cat = "optin"
    /\ get_contact_by_phone(P2).opted_out = 0

\* an opt-out and an opt-in raced and the opt-out committed last
C33_WitnessOptOutLast ==
    /\ PairDone
    /\ \E t, u \in Threads : loc[t].cat = "optout" /\ loc[u].cat = "optin"
    /\ get_contact_by_phone(P2).opted_out = 1


----------------------------------------------------------------------------
(* What a keyword message leaves alone on an existing contact               *)

\* the request in the locals l is a webhook opt-in or opt-out of a number
\* whose contact existed when the message arrived
KeywordOnExisting(l) ==
    /\ l.op = "sms" /\ l.phone # None
    /\ l.cat \in {"optin", "optout"}
    /\ Exists(l.c)

\* the rows a and b agree on everything but opted_out and updated_at
SameButConsent(a, b) ==
    /\ a.id = b.id /\ a.phone = b.phone
    /\ a.name = b.name /\ a.created_at = b.created_at

\* a step of such a request keeps every row, changing of the sender's row at
\* most opted_out and updated_at and of the other rows nothing
KeywordFrame ==
    \A t \in Threads :
        (KeywordOnExisting(loc[t]) /\ ~Idle(t) /\ pc'[t] # pc[t]) =>
            /\ \A c2 \in contacts' : \E c \in contacts : c.id = c2.id
            /\ \A c \in contacts : \E c2 \in contacts' :
                  /\ SameButConsent(c, c2)
                  /\ c.phone # loc[t].phone => c2 = c

\* C34: a webhook opt-in or opt-out of an existing contact changes only the
\* contact's opted_out and updated_at: when the reply has been returned the
\* contact has the id, phone, name and created_at it had on arrival and the
\* consent state of the keyword, and no step of the request changes more
C34_KeywordChangesOnlyConsent ==
    /\ []((SmsDone /\ KeywordOnExisting(loc[1])) =>
            /\ Exists(Current)
            /\ SameButConsent(Prior, Current)
            /\ Current.opted_out = (IF loc[1].cat = "optout" THEN 1 ELSE 0))
    /\ [][KeywordFrame]_vars

\* the frame alone, for requests served concurrently
C34_KeywordFrameConcurrent == [][KeywordFrame]_vars

\* a named, opted-out contact has opted in again and still has its name
C34_Witness ==
    /\ SmsDone /\ KeywordOnExisting(loc[1])
    /\ loc[1].cat = "optin"
    /\ Prior.opted_out = 1 /\ Prior.name # <<>>
    /\ Current.opted_out = 0 /\ Current.name = Prior.name

\* a named contact has opted out
C34_WitnessOptOut ==
    /\ SmsDone /\ KeywordOnExisting(loc[1])
    /\ loc[1].cat = "optout"
    /\ Prior.opted_out = 0 /\ Prior.name # <<>>
    /\ Current.opted_out = 1 /\ Current.name = Prior.name


----------------------------------------------------------------------------
(* One run of the bulk script over given files (SpecRun)                    *)

\* the turns of the loop in which the run in the locals l called
\* client.messages.create
Attempts(l) == {i \in 1..Len(l.b_log) : l.b_log[i].status \in {"SENT", "FAILED"}}

\* the bulk run of thread t has handled every loaded contact
RunDone(t) == pc[t] = <<"done">> /\ loc[t].op = "bulk"

\* C35: in a bulk run no send is attempted to a phone of the opt-out set the
\* run loaded at its start, and no two sends are attempted to one canonical
\* phone, however often contacts.csv lists the phone
C35_BulkSkipsOptOutsAndDuplicates ==
    \A t \in Threads :
        loc[t].op = "bulk" =>
            LET l == loc[t]
            IN  /\ \A i \in Attempts(l) : l.b_log[i].phone \notin l.b_optouts
                /\ \A i, j \in Attempts(l) :
                      l.b_log[i].phone = l.b_log[j].phone => i = j
                /\ \A i \in Attempts(l) :
                      normalize_e164(l.b_log[i].phone) = l.b_log[i].phone

\* contacts.csv lists P1 in two spellings and P2, optouts.txt lists P2: the run
\* has attempted one send to P1 and none to P2
C35_Witness ==
    /\ RunDone(1)
    /\ \E i, j \in 1..Len(csv_file) :
          csv_file[i][1] = RAW_P1 /\ csv_file[j][1] = RAW_P1_E164
    /\ \E i \in 1..Len(csv_file) : csv_file[i][1] = RAW_P2
    /\ loc[1].b_optouts = {P2}
    /\ {loc[1].b_log[i].phone : i \in Attempts(loc[1])} = {P1}

\* every contact of the file was sent to: nothing opted out, nothing repeated
C35_WitnessAllSent ==
    /\ RunDone(1)
    /\ loc[1].b_optouts = {}
    /\ {loc[1].b_log[i].phone : i \in Attempts(loc[1])} = {P1, P2}
    /\ Len(loc[1].b_log) = Len(csv_file)

\* no send is attempted to a number that the loaded opt-out set lists in any
\* spelling
C35_NoAttemptToListedNumber ==
    \A t \in Threads :
        loc[t].op = "bulk" =>
            \A i \in Attempts(loc[t]) :
                loc[t].b_log[i].phone \notin
                    {normalize_e164(x) : x \in loc[t].b_optouts}

====
